---------------------------- MODULE Spec2Model ----------------------------
(***************************************************************************)
(* A state-machine model of the HyperScan (SPG290 / S+core) emulator core: *)
(* CPU exception entry/return, interrupt controller, timer block, UART,    *)
(* VDU registers, the MMIO region, backing-array regions and the MIU.      *)
(*                                                                         *)
(* 32-bit words.  TLC's integers are 32-bit signed, so a 32-bit word is a  *)
(* pair <<hi, lo>> of 16-bit halves (hi = bits 31..16, lo = bits 15..0).   *)
(* A JavaScript number holding an int32 and one holding the uint32 with    *)
(* the same bit pattern are the same word here: every place where the      *)
(* source reads such a value back it either applies >>> 0, stores it in a  *)
(* Uint32Array, or only tests bits of it.                                  *)
(***************************************************************************)
EXTENDS Integers, Sequences, FiniteSets, TLC

VARIABLES
    cpu,        \* CPU: pc, cr[0..31], sr0 and the flags N Z C V T
    intc,       \* InterruptController: regs and stats
    timers,     \* TimerController.timers[0..2], each a Timer
    timerStats, \* TimerController.stats
    uart,       \* UART: regs, rxQueue, transmitted bytes, pending TX timeouts
    vdu,        \* VideoDisplayUnit MMIO registers
    ioRegs,     \* IOMemoryRegion.registers (the word cells without handler)
    mem,        \* ArrayMemoryRegion per region name: bytes and writable flag
    segs,       \* SegmentedMemoryRegion.segments: segment -> region name
    segStats,   \* SegmentedMemoryRegion.segmentStats
    eng,        \* HyperScanEngine: state, hw.romLoaded, clock, frame callbacks
    lastOp,     \* observation: the operation just performed, its result
    obs         \* observation: counters and snapshots the properties read

vars == <<cpu, intc, timers, timerStats, uart, vdu, ioRegs, mem,
          segs, segStats, eng, lastOp, obs>>

-----------------------------------------------------------------------------
(* Bounds of the model *)

\* how many trigger() calls a behaviour makes (stats.triggered is unbounded)
MaxTrig == 2

-----------------------------------------------------------------------------
(* 32-bit words as <<hi, lo>> *)

H16 == 2 ^ 16

Zero32 == <<0, 0>>
Ones32 == <<65535, 65535>>

\* a small non-negative integer as a word
FromInt(n) == <<(n \div H16) % H16, n % H16>>

Pow2(n) == 2 ^ n

RECURSIVE And16(_, _)
And16(a, b) ==
    IF a = 0 \/ b = 0 THEN 0
    ELSE (IF a % 2 = 1 /\ b % 2 = 1 THEN 1 ELSE 0) + 2 * And16(a \div 2, b \div 2)

Or16(a, b) == a + b - And16(a, b)
Not16(a) == 65535 - a

\* JS a & b, a | b, ~a on 32-bit patterns
And32(a, b) == <<And16(a[1], b[1]), And16(a[2], b[2])>>
Or32(a, b) == <<Or16(a[1], b[1]), Or16(a[2], b[2])>>
Not32(a) == <<Not16(a[1]), Not16(a[2])>>

\* JS a << s for s in 0..31
Shl32(a, s) ==
    IF s = 0 THEN a
    ELSE IF s < 16
         THEN <<(a[1] % Pow2(16 - s)) * Pow2(s) + a[2] \div Pow2(16 - s),
                (a[2] % Pow2(16 - s)) * Pow2(s)>>
         ELSE <<(a[2] % Pow2(32 - s)) * Pow2(s - 16), 0>>

\* (a + b) >>> 0
Add32(a, b) ==
    LET lo == a[2] + b[2]
        hi == a[1] + b[1] + lo \div H16
    IN  <<hi % H16, lo % H16>>

\* bit n (0..31) of a word, as 0 or 1
Bit(a, n) ==
    IF n >= 16 THEN (a[1] \div Pow2(n - 16)) % 2 ELSE (a[2] \div Pow2(n)) % 2

\* byte i (0..3, little-endian lane) of a word
ByteOf(a, i) ==
    CASE i = 0 -> a[2] % 256
      [] i = 1 -> a[2] \div 256
      [] i = 2 -> a[1] % 256
      [] i = 3 -> a[1] \div 256

IsZero32(a) == a = Zero32

-----------------------------------------------------------------------------
(* CPU: flags, sr0, exception entry and return (cpu.js) *)

\* sr0 is sr[0]; sr holds sr[1..31]
CpuReset ==
    [pc |-> Zero32,
     cr |-> [i \in 0..31 |-> Zero32],
     sr0 |-> Zero32,
     sr |-> [i \in 1..31 |-> Zero32],
     N |-> 0, Z |-> 0, C |-> 0, V |-> 0, T |-> 0,
     r |-> [i \in 0..31 |-> Zero32],
     CEL |-> Zero32, CEH |-> Zero32,
     cycles |-> 0, instructions |-> 0,
     halted |-> FALSE]

\* packSR0: the word built from the five flags
PackedFlags(c) ==
    <<(c.N % 2) * 32768 + (c.Z % 2) * 16384 + (c.C % 2) * 8192 + (c.V % 2) * 4096,
      c.T % 2>>

packSR0(c) == [c EXCEPT !.sr0 = PackedFlags(c)]

unpackSR0(c) ==
    [c EXCEPT !.N = Bit(c.sr0, 31), !.Z = Bit(c.sr0, 30), !.C = Bit(c.sr0, 29),
              !.V = Bit(c.sr0, 28), !.T = Bit(c.sr0, 0)]

setPC(c, addr) == [c EXCEPT !.pc = addr]

setControlRegister(c, idx, value) ==
    IF idx >= 0 /\ idx < 32 THEN [c EXCEPT !.cr[idx] = value] ELSE c

setSystemRegister(c, idx, value) ==
    IF idx = 0 THEN unpackSR0([c EXCEPT !.sr0 = value])
    ELSE IF idx > 0 /\ idx < 32 THEN [c EXCEPT !.sr[idx] = value]
    ELSE c

\* 0x00FC0000: the cause field of cr2
CauseMask == <<252, 0>>

exceptionNoSavePC(c, cause) ==
    LET p == packSR0(c)
    IN  [p EXCEPT !.cr[1] = p.sr0,
                  !.cr[2] = Or32(And32(p.cr[2], Not32(CauseMask)),
                                 Shl32(FromInt(cause % 64), 18)),
                  !.cr[0] = And32(p.cr[0], Not32(FromInt(1))),
                  !.pc = Add32(p.cr[3], FromInt(cause * 4))]

exception(c, cause) ==
    LET p == packSR0(c)
    IN  [p EXCEPT !.cr[1] = p.sr0,
                  !.cr[2] = Or32(And32(p.cr[2], Not32(CauseMask)),
                                 Shl32(FromInt(cause % 64), 18)),
                  !.cr[5] = p.pc,
                  !.cr[0] = And32(p.cr[0], Not32(FromInt(1))),
                  !.pc = Add32(p.cr[3], FromInt(cause * 4))]

rte(c) ==
    LET q == unpackSR0([c EXCEPT !.sr0 = c.cr[1]])
    IN  [q EXCEPT !.pc = q.cr[5]]

-----------------------------------------------------------------------------
(* The hardware as one value, so that an operation that calls into another  *)
(* component (timer -> interrupt controller -> CPU, MIU -> region ->        *)
(* handler -> peripheral) is the composition of their operators.           *)
(* calls is the observation log of the operation in progress: exception    *)
(* entries, trigger calls with the MASK they met, timer compare callbacks  *)
(* and MMIO handler invocations, in call order.                            *)

HW ==
    [cpu |-> cpu, intc |-> intc, timers |-> timers, timerStats |-> timerStats,
     uart |-> uart, vdu |-> vdu, ioRegs |-> ioRegs,
     mem |-> mem, segs |-> segs, segStats |-> segStats, eng |-> eng,
     calls |-> <<>>]

SetHW(h) ==
    /\ cpu' = h.cpu
    /\ intc' = h.intc
    /\ timers' = h.timers
    /\ timerStats' = h.timerStats
    /\ uart' = h.uart
    /\ vdu' = h.vdu
    /\ ioRegs' = h.ioRegs
    /\ mem' = h.mem
    /\ segs' = h.segs
    /\ segStats' = h.segStats
    /\ eng' = h.eng

Call(kind, n, w) == [k |-> kind, n |-> n, w |-> w]

\* how many entries of kind k the log holds
CountCalls(log, k) == Cardinality({i \in 1..Len(log) : log[i].k = k})

\* cpu.exception(cause) called on the hardware's CPU
cpuException(h, cause) ==
    [h EXCEPT !.cpu = exception(h.cpu, cause),
              !.calls = Append(h.calls, Call("exception", cause, Zero32))]

-----------------------------------------------------------------------------
(* Interrupt controller (src/unnamed/part_001) *)

IntcReset ==
    [MASK |-> Zero32, PRIO |-> Zero32, STATUS |-> Zero32,
     triggered |-> 0, processed |-> 0, blocked |-> 0]

\* 1 << irqNumber
IrqBit(n) == Shl32(FromInt(1), n)

\* a trigger that delivers the line to the CPU whatever its MASK bit is
triggerIgnoreMask(h, hasCpu, irqNumber) ==
    IF irqNumber < 0 \/ irqNumber > 31 THEN h
    ELSE LET st == Or32(h.intc.STATUS, IrqBit(irqNumber))
             h1 == [h EXCEPT !.intc.triggered = @ + 1, !.intc.STATUS = st,
                             !.calls = Append(@, Call("trigger", irqNumber, h.intc.MASK))]
         IN  IF hasCpu
             THEN LET h2 == cpuException(h1, irqNumber)
                  IN  [h2 EXCEPT !.intc.processed = @ + 1]
             ELSE [h1 EXCEPT !.intc.blocked = @ + 1]

\* trigger(cpu, irqNumber); hasCpu is whether the cpu argument is non-null
trigger(h, hasCpu, irqNumber) ==
    IF irqNumber < 0 \/ irqNumber > 31 THEN h
    ELSE LET st == Or32(h.intc.STATUS, IrqBit(irqNumber))
             isEnabled == ~IsZero32(And32(h.intc.MASK, IrqBit(irqNumber)))
             h1 == [h EXCEPT !.intc.triggered = @ + 1, !.intc.STATUS = st,
                             !.calls = Append(@, Call("trigger", irqNumber, h.intc.MASK))]
         IN  IF hasCpu /\ isEnabled
             THEN LET h2 == cpuException(h1, irqNumber)
                  IN  [h2 EXCEPT !.intc.processed = @ + 1]
             ELSE [h1 EXCEPT !.intc.blocked = @ + 1]

\* readU32(address)
intcReadU32(i, address) ==
    LET offset == address % 65536
    IN  CASE offset = 0 -> i.MASK
          [] offset = 4 -> i.PRIO
          [] offset = 8 -> i.STATUS
          [] offset = 12 -> Zero32
          [] OTHER -> Zero32

\* the lowest set bit position of a non-zero word
LowestBit(w) == CHOOSE n \in 0..31 : Bit(w, n) = 1 /\ \A m \in 0..(n - 1) : Bit(w, m) = 0

\* a controller that replays a pending line when its MASK bit is written to 1
intcWriteU32Replay(h, address, value) ==
    LET offset == address % 65536
        hit == And32(h.intc.STATUS, value)
    IN  CASE offset = 0 ->
               IF IsZero32(hit) THEN [h EXCEPT !.intc.MASK = value]
               ELSE cpuException([h EXCEPT !.intc.MASK = value], LowestBit(hit))
          [] offset = 4 -> [h EXCEPT !.intc.PRIO = value]
          [] offset = 8 -> h
          [] offset = 12 -> [h EXCEPT !.intc.STATUS = And32(@, Not32(value))]
          [] OTHER -> h

\* an ACK that clears the whole STATUS register
intcWriteU32AckAll(h, address, value) ==
    LET offset == address % 65536
    IN  CASE offset = 0 -> [h EXCEPT !.intc.MASK = value]
          [] offset = 4 -> [h EXCEPT !.intc.PRIO = value]
          [] offset = 8 -> h
          [] offset = 12 -> [h EXCEPT !.intc.STATUS = Zero32]
          [] OTHER -> h

\* writeU32(address, value)
intcWriteU32(h, address, value) ==
    LET offset == address % 65536
    IN  CASE offset = 0 -> [h EXCEPT !.intc.MASK = value]
          [] offset = 4 -> [h EXCEPT !.intc.PRIO = value]
          [] offset = 8 -> h
          [] offset = 12 -> [h EXCEPT !.intc.STATUS = And32(@, Not32(value))]
          [] OTHER -> h

enableIRQ(i, n) ==
    IF n >= 0 /\ n < 32 THEN [i EXCEPT !.MASK = Or32(@, IrqBit(n))] ELSE i

disableIRQ(i, n) ==
    IF n >= 0 /\ n < 32 THEN [i EXCEPT !.MASK = And32(@, Not32(IrqBit(n)))] ELSE i

clearIRQ(i, n) ==
    IF n >= 0 /\ n < 32 THEN [i EXCEPT !.STATUS = And32(@, Not32(IrqBit(n)))] ELSE i

-----------------------------------------------------------------------------
(* Timer block (src/hyperscan/io/uart.js, Timer and TimerController) *)

\* PLATFORM_CONFIG.IRQ_TIMER, the line the engine's onInterrupt callback raises
IRQ_TIMER == 5

TimerNew ==
    [count |-> Zero32, ctrl |-> Zero32, cmp |-> Ones32, stat |-> 0,
     enabled |-> FALSE, countDown |-> FALSE, repeat |-> FALSE,
     irqEnabled |-> FALSE, extClock |-> FALSE, clockScale |-> 0,
     cyclesUntilTick |-> 0, interrupts |-> 0]

\* bit b of the low byte of a written value, as a boolean
LowBit(value, b) == (value[2] \div Pow2(b)) % 2 = 1

writeCtrl(t, value) ==
    [t EXCEPT !.ctrl = value,
              !.enabled = LowBit(value, 0),
              !.countDown = LowBit(value, 1),
              !.repeat = LowBit(value, 2),
              !.irqEnabled = LowBit(value, 3),
              !.extClock = LowBit(value, 4),
              !.clockScale = (value[2] \div 32) % 8]

readCtrl(t) ==
    FromInt((IF t.enabled THEN 1 ELSE 0) + (IF t.countDown THEN 2 ELSE 0)
            + (IF t.repeat THEN 4 ELSE 0) + (IF t.irqEnabled THEN 8 ELSE 0)
            + (IF t.extClock THEN 16 ELSE 0) + (t.clockScale % 8) * 32)

writeCount(t, value) == [t EXCEPT !.count = value, !.cyclesUntilTick = 0]

writeCompare(t, value) == [t EXCEPT !.cmp = value]

readStatus(t) == FromInt(t.stat)

\* stat |= m, stat &= ~m on the small status register
StatSet(st, m) == IF (st \div m) % 2 = 1 THEN st ELSE st + m
StatClear(st, m) == IF (st \div m) % 2 = 1 THEN st - m ELSE st

writeStatus(t, value) ==
    IF LowBit(value, 7) THEN [t EXCEPT !.stat = StatClear(@, 1)] ELSE t

\* one pass of the while loop of Timer.tick: the arithmetic, then the compare
TimerStep(t) ==
    LET a == IF t.countDown
             THEN IF IsZero32(t.count)
                  THEN IF t.repeat
                       THEN [t EXCEPT !.stat = StatSet(@, 2), !.count = t.cmp]
                       ELSE [t EXCEPT !.stat = StatSet(@, 2), !.enabled = FALSE]
                  ELSE [t EXCEPT !.count = Add32(@, Ones32)]
             ELSE LET c == Add32(t.count, FromInt(1))
                  IN  IF IsZero32(c)
                      THEN [t EXCEPT !.count = c, !.stat = StatSet(@, 2)]
                      ELSE [t EXCEPT !.count = c]
    IN  IF a.count = a.cmp
        THEN LET b == [a EXCEPT !.stat = StatSet(@, 1),
                                !.interrupts = IF a.irqEnabled THEN @ + 1 ELSE @]
             IN  IF b.repeat THEN [b EXCEPT !.count = Zero32]
                 ELSE [b EXCEPT !.enabled = FALSE]
        ELSE a

\* the while loop of Timer.tick, the scale fixed before the loop
RECURSIVE TimerLoop(_, _)
TimerLoop(t, scale) ==
    IF t.cyclesUntilTick >= scale
    THEN TimerLoop(TimerStep([t EXCEPT !.cyclesUntilTick = @ - scale]), scale)
    ELSE t

\* a tick that forgets the cycles left over below one scale unit
timerTickDropRemainder(t, cycles) ==
    IF ~t.enabled THEN [t EXCEPT !.cyclesUntilTick = 0]
    ELSE LET r == TimerLoop([t EXCEPT !.cyclesUntilTick = @ + cycles],
                            Pow2(t.clockScale))
         IN  [r EXCEPT !.cyclesUntilTick = 0]

\* Timer.tick(cycles): the timer after the call
timerTick(t, cycles) ==
    IF ~t.enabled THEN [t EXCEPT !.cyclesUntilTick = 0]
    ELSE TimerLoop([t EXCEPT !.cyclesUntilTick = @ + cycles], Pow2(t.clockScale))

timerReset(t) ==
    [t EXCEPT !.count = Zero32, !.ctrl = Zero32, !.cmp = Ones32, !.stat = 0,
              !.enabled = FALSE, !.cyclesUntilTick = 0, !.interrupts = 0]

\* handleTimerInterrupt(timerNumber), k times: the engine's onInterrupt
\* callback is intC.trigger(cpu, IRQ_TIMER)
RECURSIVE handleTimerInterrupt(_, _, _)
handleTimerInterrupt(h, timerNumber, k) ==
    IF k = 0 THEN h
    ELSE handleTimerInterrupt(
             trigger([h EXCEPT !.timerStats.totalInterrupts = @ + 1,
                               !.calls = Append(@, Call("onInterrupt", timerNumber, Zero32))],
                     TRUE, IRQ_TIMER),
             timerNumber, k - 1)

\* TimerController.tick(cycles): the three channels in order; every compare
\* interrupt of a channel goes through handleTimerInterrupt to the engine
RECURSIVE TickChannels(_, _, _)
TickChannels(h, i, cycles) ==
    IF i >= 3 THEN h
    ELSE LET t == timerTick(h.timers[i], cycles)
             k == t.interrupts - h.timers[i].interrupts
         IN  TickChannels(handleTimerInterrupt([h EXCEPT !.timers[i] = t], i, k),
                          i + 1, cycles)

timerControllerTick(h, cycles) ==
    TickChannels([h EXCEPT !.timerStats.totalTicks = @ + cycles], 0, cycles)

\* TimerController.readU32(offset)
timerReadU32(h, address) ==
    LET offset == address % 65536
        timerIdx == (offset \div 16) % 4
        regOffset == ((offset \div 4) % 4) * 4
    IN  IF timerIdx >= 3 THEN Zero32
        ELSE CASE regOffset = 0 -> h.timers[timerIdx].count
               [] regOffset = 4 -> readCtrl(h.timers[timerIdx])
               [] regOffset = 8 -> h.timers[timerIdx].cmp
               [] regOffset = 12 -> readStatus(h.timers[timerIdx])

\* TimerController.writeU32(offset, value)
timerWriteU32(h, address, value) ==
    LET offset == address % 65536
        timerIdx == (offset \div 16) % 4
        regOffset == ((offset \div 4) % 4) * 4
    IN  IF timerIdx >= 3 THEN h
        ELSE CASE regOffset = 0 -> [h EXCEPT !.timers[timerIdx] = writeCount(@, value)]
               [] regOffset = 4 -> [h EXCEPT !.timers[timerIdx] = writeCtrl(@, value)]
               [] regOffset = 8 -> [h EXCEPT !.timers[timerIdx] = writeCompare(@, value)]
               [] regOffset = 12 -> [h EXCEPT !.timers[timerIdx] = writeStatus(@, value)]

timerControllerReset(h) ==
    [h EXCEPT !.timers = [i \in 0..2 |-> timerReset(h.timers[i])],
              !.timerStats = [totalTicks |-> 0, totalInterrupts |-> 0]]

-----------------------------------------------------------------------------
(* UART (src/hyperscan/io/uart.js, class UART) *)

STATUS_TX_EMPTY == 128
STATUS_RX_READY == 64

\* regs after the constructor or reset(): STATUS = 0x90
UartRegsReset ==
    [RX_BUF |-> 0, CONTROL |-> Zero32, STATUS |-> 144, BAUD |-> Zero32]

\* buffer is the text waiting for a flush, txTimers the setTimeout
\* callbacks of TX writes that have not run yet
UartNew ==
    [regs |-> UartRegsReset, rxQueue |-> <<>>, buffer |-> <<>>, txTimers |-> 0]

uartReset(u) ==
    [u EXCEPT !.regs = UartRegsReset, !.rxQueue = <<>>, !.buffer = <<>>]

\* processTX(byte): '\n' (10) or more than 255 buffered characters flush
processTX(u, byte) ==
    LET buf == Append(u.buffer, byte)
    IN  [u EXCEPT !.buffer = IF byte = 10 \/ Len(buf) > 255 THEN <<>> ELSE buf]

\* a UART whose data register read leaves RX-ready set
uartReadU32KeepReady(u, address) ==
    LET offset == address % 65536
    IN  CASE offset = 0 -> [u |-> u, ret |-> FromInt(u.regs.RX_BUF)]
          [] offset = 8 -> [u |-> u, ret |-> u.regs.CONTROL]
          [] offset = 12 -> [u |-> u, ret |-> FromInt(u.regs.STATUS)]
          [] offset = 16 -> [u |-> u, ret |-> u.regs.BAUD]
          [] OTHER -> [u |-> u, ret |-> Zero32]

\* readU32(address): the UART after the read and the value returned
uartReadU32(u, address) ==
    LET offset == address % 65536
    IN  CASE offset = 0 ->
               [u |-> [u EXCEPT !.regs.STATUS = StatClear(@, STATUS_RX_READY)],
                ret |-> FromInt(u.regs.RX_BUF)]
          [] offset = 8 -> [u |-> u, ret |-> u.regs.CONTROL]
          [] offset = 12 -> [u |-> u, ret |-> FromInt(u.regs.STATUS)]
          [] offset = 16 -> [u |-> u, ret |-> u.regs.BAUD]
          [] OTHER -> [u |-> u, ret |-> Zero32]

\* writeU32(address, value); a TX write schedules the timeout that restores
\* TX-empty
uartWriteU32(u, address, value) ==
    LET offset == address % 65536
    IN  CASE offset = 0 ->
               LET p == processTX(u, value[2] % 256)
               IN  [p EXCEPT !.regs.STATUS = StatClear(@, STATUS_TX_EMPTY),
                             !.txTimers = @ + 1]
          [] offset = 8 -> [u EXCEPT !.regs.CONTROL = value]
          [] offset = 12 -> u
          [] offset = 16 -> [u EXCEPT !.regs.BAUD = value]
          [] OTHER -> u

\* the setTimeout callback of a TX write
uartTxTimeout(u) ==
    [u EXCEPT !.regs.STATUS = StatSet(@, STATUS_TX_EMPTY), !.txTimers = @ - 1]

\* receiveData(byte)
receiveData(u, byte) ==
    [u EXCEPT !.rxQueue = Append(@, byte % 256),
              !.regs.STATUS = StatSet(@, STATUS_RX_READY),
              !.regs.RX_BUF = byte % 256]

\* getNextRXByte(): the UART after the call and the byte returned
getNextRXByte(u) ==
    IF Len(u.rxQueue) > 0
    THEN [u |-> [u EXCEPT !.rxQueue = Tail(@)], ret |-> Head(u.rxQueue)]
    ELSE [u |-> [u EXCEPT !.regs.STATUS = StatClear(@, STATUS_RX_READY)], ret |-> 0]

-----------------------------------------------------------------------------
(* VDU registers (src/hyperscan/io/uart.js, class VideoDisplayUnit) *)

\* the display of the model, in pixels
DisplayWidth == 2
DisplayHeight == 1

VduZeroStats ==
    [framesRendered |-> 0, framesAttempted |-> 0, framebufferErrors |-> 0,
     boundsErrors |-> 0, vblanks |-> 0, conversionErrors |-> 0]

\* new VideoDisplayUnit(canvasId, {width, height, fbAddr, colorMode}) with a
\* non-zero fbAddr; data is imageData.data, the bytes behind imageDataU32,
\* and timeouts counts the pending callbacks that end a vertical blank
VideoDisplayUnit(width, height, fbAddr, colorMode) ==
    [ctrl |-> FromInt(1), status |-> Zero32,
     fbAddrHigh |-> fbAddr[1], fbAddrLow |-> fbAddr[2], fbAddr |-> fbAddr,
     width |-> width, height |-> height, colorModeSource |-> colorMode,
     data |-> [i \in 0..(4 * width * height - 1) |-> 0],
     stats |-> VduZeroStats, timeouts |-> 0]

\* the engine constructs the VDU with fbAddr 0xA0000000 and RGB565
VduNew == VideoDisplayUnit(DisplayWidth, DisplayHeight, <<40960, 0>>, "RGB565")

vduReadU32(v, address) ==
    LET offset == address % 65536
        alignedOffset == (offset \div 2) * 2
    IN  CASE alignedOffset = 0 -> v.ctrl
          [] alignedOffset = 2 -> v.status
          [] alignedOffset = 4 -> <<0, v.fbAddrHigh>>
          [] alignedOffset = 6 -> <<0, v.fbAddrLow>>
          [] OTHER -> Zero32

vduWriteU32(v, address, value) ==
    LET offset == address % 65536
        alignedOffset == (offset \div 2) * 2
    IN  CASE alignedOffset = 0 -> [v EXCEPT !.ctrl = value]
          [] alignedOffset = 2 -> v
          [] alignedOffset = 4 ->
               [v EXCEPT !.fbAddrHigh = value[2], !.fbAddr = <<value[2], v.fbAddrLow>>]
          [] alignedOffset = 6 ->
               [v EXCEPT !.fbAddrLow = value[2], !.fbAddr = <<v.fbAddrHigh, value[2]>>]
          [] OTHER -> v

-----------------------------------------------------------------------------
(* MMIO region (src/hyperscan/io/io.js) with the handlers the engine       *)
(* registers in _setupIOHandlers (src/main.js)                             *)

IO_SIZE == 262144
TIMER_BASE == 134873088
INTC_BASE == 134873088
UART_BASE == 134938624
VDU_BASE == 135004160

\* (offset >>> 2) & ((size >>> 2) - 1): the engine's IO_SIZE is a power of
\* two, so the mask takes the remainder
IoWordOffset(offset) == (offset \div 4) % (IO_SIZE \div 4)

\* registerHandler(offset, readFn, writeFn): the closures call peripheral dev
\* with the loop's offset off
registerHandler(map, offset, dev, off) ==
    LET wordOffset == IoWordOffset(offset)
    IN  [x \in (DOMAIN map) \cup {wordOffset} |->
            IF x = wordOffset THEN [dev |-> dev, off |-> off] ELSE map[x]]

\* the registerHandler calls of _setupIOHandlers, in program order
Registrations ==
    [i \in 1..4 |-> [addr |-> VDU_BASE + 2 * (i - 1), dev |-> "vdu", off |-> 2 * (i - 1)]]
    \o [i \in 1..12 |-> [addr |-> TIMER_BASE + 4 * (i - 1), dev |-> "timer", off |-> 4 * (i - 1)]]
    \o [i \in 1..4 |-> [addr |-> INTC_BASE + 4 * (i - 1), dev |-> "intc", off |-> 4 * (i - 1)]]
    \o [i \in 1..8 |-> [addr |-> UART_BASE + 4 * (i - 1), dev |-> "uart", off |-> 4 * (i - 1)]]

RECURSIVE setupIOHandlers(_, _)
setupIOHandlers(map, i) ==
    IF i > Len(Registrations) THEN map
    ELSE setupIOHandlers(
             registerHandler(map, Registrations[i].addr, Registrations[i].dev,
                             Registrations[i].off),
             i + 1)

\* io.handlers once setupHardware has run
Handlers == setupIOHandlers([x \in {} |-> 0], 1)

\* handler.readFn(): the hardware after the call and the value returned
readFnLogged(r, wordOffset) ==
    [h |-> [r.h EXCEPT !.calls = Append(@, Call("readFn", wordOffset, r.ret))],
     ret |-> r.ret]

readFnUart(h, u) == [h |-> [h EXCEPT !.uart = u.u], ret |-> u.ret]

readFnOf(h, wordOffset, dev, off) ==
    readFnLogged(CASE dev = "vdu" -> [h |-> h, ret |-> vduReadU32(h.vdu, off)]
                   [] dev = "timer" -> [h |-> h, ret |-> timerReadU32(h, off)]
                   [] dev = "intc" -> [h |-> h, ret |-> intcReadU32(h.intc, off)]
                   [] dev = "uart" -> readFnUart(h, uartReadU32(h.uart, off)),
                 wordOffset)

readFn(h, wordOffset) ==
    readFnOf(h, wordOffset, Handlers[wordOffset].dev, Handlers[wordOffset].off)

\* handler.writeFn(value)
writeFn(h, wordOffset, value) ==
    LET dev == Handlers[wordOffset].dev
        off == Handlers[wordOffset].off
        h1 == [h EXCEPT !.calls = Append(@, Call("writeFn", wordOffset, value))]
    IN  CASE dev = "vdu" -> [h1 EXCEPT !.vdu = vduWriteU32(@, off, value)]
          [] dev = "timer" -> timerWriteU32(h1, off, value)
          [] dev = "intc" -> intcWriteU32(h1, off, value)
          [] dev = "uart" -> [h1 EXCEPT !.uart = uartWriteU32(@, off, value)]

\* registers[wordOffset] of the zero-initialised Uint32Array, kept sparse
IoRegister(regs, wordOffset) ==
    IF wordOffset \in DOMAIN regs THEN regs[wordOffset] ELSE Zero32

\* the word with byte lane i replaced by the low byte of v
MergeByte(word, i, v) ==
    LET b == [j \in 0..3 |-> IF j = i THEN v % 256 ELSE ByteOf(word, j)]
    IN  <<b[2] + 256 * b[3], b[0] + 256 * b[1]>>

\* the word with halfword lane i (0 or 1) replaced by the low 16 bits of v
MergeHalf(word, i, v) ==
    IF i = 0 THEN <<word[1], v % H16>> ELSE <<v % H16, word[2]>>

ioReadU32(h, offset) ==
    LET wordOffset == IoWordOffset(offset)
    IN  IF wordOffset \in DOMAIN Handlers THEN readFn(h, wordOffset)
        ELSE [h |-> h, ret |-> IoRegister(h.ioRegs, wordOffset)]

\* the byte lane and the halfword lane of the word a read r returned
ByteLane(r, offset) == [h |-> r.h, ret |-> FromInt(ByteOf(r.ret, offset % 4))]
HalfLane(r, offset) ==
    [h |-> r.h, ret |-> <<0, IF (offset \div 2) % 2 = 1 THEN r.ret[1] ELSE r.ret[2]>>]

ioReadU8(h, offset) == ByteLane(ioReadU32(h, (offset \div 4) * 4), offset)

ioReadU16(h, offset) == HalfLane(ioReadU32(h, (offset \div 4) * 4), offset)

ioWriteU32(h, offset, value) ==
    LET wordOffset == IoWordOffset(offset)
    IN  IF wordOffset \in DOMAIN Handlers THEN writeFn(h, wordOffset, value)
        ELSE [h EXCEPT !.ioRegs =
                 [x \in (DOMAIN h.ioRegs) \cup {wordOffset} |->
                     IF x = wordOffset THEN value ELSE h.ioRegs[x]]]

\* a byte write that stores the shifted byte without merging it into the word
ioWriteU8NoMerge(h, offset, value) ==
    ioWriteU32(ioReadU32(h, (offset \div 4) * 4).h, (offset \div 4) * 4,
               MergeByte(Zero32, offset % 4, value))

\* the word write that ends a byte or halfword write; r is the read of the
\* word before it
MergedByte(r, offset, value) ==
    ioWriteU32(r.h, (offset \div 4) * 4, MergeByte(r.ret, offset % 4, value))
MergedHalf(r, offset, value) ==
    ioWriteU32(r.h, (offset \div 4) * 4, MergeHalf(r.ret, (offset \div 2) % 2, value))

ioWriteU8(h, offset, value) ==
    MergedByte(ioReadU32(h, (offset \div 4) * 4), offset, value)

ioWriteU16(h, offset, value) ==
    MergedHalf(ioReadU32(h, (offset \div 4) * 4), offset, value)

-----------------------------------------------------------------------------
(* Backing-array region (src/hyperscan/memory/arraymemoryregion.js).       *)
(* bytes is the one buffer behind the u8, u16 and u32 views; the views of  *)
(* a typed array are little-endian on the platforms the emulator runs on.  *)

\* region size in bytes the model constructs DRAM and flash with
MemSize == 8

\* new ArrayMemoryRegion(sizeBytes): alignedSize = (sizeBytes + 3) & ~3
ArrayMemoryRegion(sizeBytes) ==
    [bytes |-> [i \in 0..((((sizeBytes + 3) \div 4) * 4) - 1) |-> 0],
     size |-> sizeBytes, writable |-> TRUE]

\* u8.length
U8Length(r) == Cardinality(DOMAIN r.bytes)

arrReadU8(r, offset) == <<0, r.bytes[And16(offset, U8Length(r) - 1)]>>

arrReadU16(r, offset) ==
    LET index == And16(offset \div 2, (U8Length(r) \div 2) - 1)
    IN  <<0, r.bytes[2 * index] + 256 * r.bytes[2 * index + 1]>>

arrReadU32(r, offset) ==
    LET index == And16(offset \div 4, (U8Length(r) \div 4) - 1)
    IN  <<r.bytes[4 * index + 2] + 256 * r.bytes[4 * index + 3],
          r.bytes[4 * index] + 256 * r.bytes[4 * index + 1]>>

arrWriteU8(r, offset, value) ==
    IF ~r.writable THEN r
    ELSE [r EXCEPT !.bytes[And16(offset, U8Length(r) - 1)] = value % 256]

arrWriteU16(r, offset, value) ==
    IF ~r.writable THEN r
    ELSE LET index == And16(offset \div 2, (U8Length(r) \div 2) - 1)
         IN  [r EXCEPT !.bytes[2 * index] = value % 256,
                       !.bytes[2 * index + 1] = (value \div 256) % 256]

\* a word store that lays the bytes out most significant first
arrWriteU32BigEndian(r, offset, value) ==
    IF ~r.writable THEN r
    ELSE LET index == And16(offset \div 4, (U8Length(r) \div 4) - 1)
         IN  [r EXCEPT !.bytes[4 * index] = ByteOf(value, 3),
                       !.bytes[4 * index + 1] = ByteOf(value, 2),
                       !.bytes[4 * index + 2] = ByteOf(value, 1),
                       !.bytes[4 * index + 3] = ByteOf(value, 0)]

arrWriteU32(r, offset, value) ==
    IF ~r.writable THEN r
    ELSE LET index == And16(offset \div 4, (U8Length(r) \div 4) - 1)
         IN  [r EXCEPT !.bytes[4 * index] = ByteOf(value, 0),
                       !.bytes[4 * index + 1] = ByteOf(value, 1),
                       !.bytes[4 * index + 2] = ByteOf(value, 2),
                       !.bytes[4 * index + 3] = ByteOf(value, 3)]

makeReadOnly(r) == [r EXCEPT !.writable = FALSE]

makeReadWrite(r) == [r EXCEPT !.writable = TRUE]

-----------------------------------------------------------------------------
(* MIU (src/hyperscan/memory/segmentedmemoryregion.js).  segs maps each of  *)
(* segment to the region mounted there ("none" for null); an absent        *)
(* segmentStats entry counts as zeros, which is what the code's "|| {}"    *)
(* and "|| 0" defaults make of it.  Of the 256 entries of the table the    *)
(* model keeps those its addresses select: the three the engine mounts and *)
(* the two ends of the table, which stand for every entry left null.       *)

SEGMENT_DRAM == 160
SEGMENT_IO == 8
SEGMENT_FLASH == 158

Segments == {0, SEGMENT_IO, SEGMENT_FLASH - 1, SEGMENT_FLASH, SEGMENT_DRAM, 255}

ZeroStats == [reads |-> 0, writes |-> 0, unmappedReads |-> 0, unmappedWrites |-> 0]

\* getSegment(address) and getOffset(address)
getSegment(address) == address[1] \div 256
getOffset(address) == (address[1] % 256) * H16 + address[2]

\* setRegion(segment, region): a RangeError for a segment outside 0..255;
\* otherwise the entry's statistics start again from zero
setRegion(h, segment, region) ==
    IF segment < 0 \/ segment > 255 THEN [h |-> h, threw |-> TRUE]
    ELSE [h |-> [h EXCEPT !.segs[segment] = region, !.segStats[segment] = ZeroStats],
          threw |-> FALSE]

unmapSegment(h, segment) ==
    IF segment >= 0 /\ segment < 256 THEN [h EXCEPT !.segs[segment] = "none"] ELSE h

\* region.readU8/16/32(offset) of the region mounted under a name
regionRead(h, region, width, offset) ==
    IF region = "io"
    THEN CASE width = 8 -> ioReadU8(h, offset)
           [] width = 16 -> ioReadU16(h, offset)
           [] width = 32 -> ioReadU32(h, offset)
    ELSE [h |-> h,
          ret |-> CASE width = 8 -> arrReadU8(h.mem[region], offset)
                    [] width = 16 -> arrReadU16(h.mem[region], offset)
                    [] width = 32 -> arrReadU32(h.mem[region], offset)]

\* region.writeU8/16/32(offset, value); value is a word, narrowed by the region
regionWrite(h, region, width, offset, value) ==
    IF region = "io"
    THEN CASE width = 8 -> ioWriteU8(h, offset, value[2])
           [] width = 16 -> ioWriteU16(h, offset, value[2])
           [] width = 32 -> ioWriteU32(h, offset, value)
    ELSE CASE width = 8 -> [h EXCEPT !.mem[region] = arrWriteU8(@, offset, value[2])]
           [] width = 16 -> [h EXCEPT !.mem[region] = arrWriteU16(@, offset, value[2])]
           [] width = 32 -> [h EXCEPT !.mem[region] = arrWriteU32(@, offset, value)]

\* an MIU whose reads of an unmapped segment are not counted
miuReadUncounted(h, width, address) ==
    LET segment == getSegment(address)
        region == h.segs[segment]
    IN  IF region = "none" THEN [h |-> h, ret |-> Zero32]
        ELSE regionRead([h EXCEPT !.segStats[segment].reads = @ + 1],
                        region, width, getOffset(address))

\* readU8, readU16 and readU32(address), which differ only in the region
\* method they end in
miuRead(h, width, address) ==
    LET segment == getSegment(address)
        region == h.segs[segment]
    IN  IF region = "none"
        THEN [h |-> [h EXCEPT !.segStats[segment].unmappedReads = @ + 1],
              ret |-> Zero32]
        ELSE regionRead([h EXCEPT !.segStats[segment].reads = @ + 1],
                        region, width, getOffset(address))

\* writeU8, writeU16 and writeU32(address, value)
miuWrite(h, width, address, value) ==
    LET segment == getSegment(address)
        region == h.segs[segment]
    IN  IF region = "none"
        THEN [h EXCEPT !.segStats[segment].unmappedWrites = @ + 1]
        ELSE regionWrite([h EXCEPT !.segStats[segment].writes = @ + 1],
                         region, width, getOffset(address), value)

-----------------------------------------------------------------------------
(* VDU rendering (src/hyperscan/io/uart.js, class VideoDisplayUnit).  The  *)
(* argument of render is "miu" for the segmented MIU, "dram" for a bare    *)
(* array region, which has neither getRegion nor segments, and "null" for  *)
(* a call without an MIU on a VDU that none was connected to.              *)

\* Math.round(n / d) for n >= 0
RoundDiv(n, d) == (2 * n + d) \div (2 * d)

\* _rgb565ToRGBA8888(rgb565): the 32-bit value (r << 24) | (g << 16) | (b << 8) | a
rgb565ToRGBA8888(rgb565) ==
    <<RoundDiv(((rgb565 \div 2048) % 32) * 255, 31) * 256
        + RoundDiv(((rgb565 \div 32) % 64) * 255, 63),
      RoundDiv((rgb565 % 32) * 255, 31) * 256 + 255>>

\* _rgb555ToRGBA8888(rgb555)
rgb555ToRGBA8888(rgb555) ==
    <<RoundDiv(((rgb555 \div 1024) % 32) * 255, 31) * 256
        + RoundDiv(((rgb555 \div 32) % 32) * 255, 31),
      RoundDiv((rgb555 % 32) * 255, 31) * 256 + 255>>

\* the ARGB8888 case of _copyFramebuffer: (r << 24) | (g << 16) | (b << 8) | a
argbToRGBA8888(argb) ==
    <<(argb[1] % 256) * 256 + argb[2] \div 256, (argb[2] % 256) * 256 + argb[1] \div 256>>

\* bytes of the source pixel formats _copyFramebuffer reads
SourceBytes(colorMode) ==
    CASE colorMode \in {"RGB565", "RGB555"} -> 2
      [] colorMode \in {"RGBA8888", "ARGB8888"} -> 4
      [] OTHER -> 0

\* region.size || region.buffer.byteLength of the region mounted under a name
vduRegionSize(h, region) ==
    IF region = "io" THEN IO_SIZE
    ELSE IF h.mem[region].size # 0 THEN h.mem[region].size
    ELSE U8Length(h.mem[region])

\* element i of new Uint16Array(region.buffer, offset, pixelCount)
ramView16(r, offset, i) == r.bytes[offset + 2 * i] + 256 * r.bytes[offset + 2 * i + 1]

\* element i of new Uint32Array(region.buffer, offset, pixelCount)
ramView32(r, offset, i) ==
    <<r.bytes[offset + 4 * i + 2] + 256 * r.bytes[offset + 4 * i + 3],
      r.bytes[offset + 4 * i] + 256 * r.bytes[offset + 4 * i + 1]>>

\* the value _copyFramebuffer stores in imageDataU32[i]
convertedPixel(colorMode, r, offset, i) ==
    CASE colorMode = "RGBA8888" -> ramView32(r, offset, i)
      [] colorMode = "RGB565" -> rgb565ToRGBA8888(ramView16(r, offset, i))
      [] colorMode = "RGB555" -> rgb555ToRGBA8888(ramView16(r, offset, i))
      [] colorMode = "ARGB8888" -> argbToRGBA8888(ramView32(r, offset, i))

\* a typed-array view of count elements of size bytes at offset is a
\* RangeError unless it is aligned and inside the buffer
viewThrows(r, offset, size, count) ==
    offset % size # 0 \/ offset + size * count > U8Length(r)

\* imageData.data after imageDataU32[i] has taken the converted pixel of
\* every i
copiedData(v, r, offset) ==
    [k \in DOMAIN v.data |->
        ByteOf(convertedPixel(v.colorModeSource, r, offset, k \div 4), k % 4)]

\* _validateFBAddress(miu) on the MIU: ok is the result returned
validateFBAddress(h) ==
    LET region == h.segs[getSegment(h.vdu.fbAddr)]
    IN  IF region = "none" THEN [h |-> h, ok |-> FALSE]
        ELSE IF getOffset(h.vdu.fbAddr) + h.vdu.width * h.vdu.height * 4
                    > vduRegionSize(h, region)
        THEN [h |-> [h EXCEPT !.vdu.stats.boundsErrors = @ + 1], ok |-> FALSE]
        ELSE [h |-> h, ok |-> TRUE]

\* _copyFramebuffer(miu) on the MIU
copyFramebuffer(h) ==
    LET region == h.segs[getSegment(h.vdu.fbAddr)]
        offset == getOffset(h.vdu.fbAddr)
    IN  IF region \in {"none", "io"} THEN [h |-> h, ok |-> FALSE]
        ELSE IF SourceBytes(h.vdu.colorModeSource) = 0
        THEN [h |-> [h EXCEPT !.vdu.stats.conversionErrors = @ + 1], ok |-> FALSE]
        ELSE IF viewThrows(h.mem[region], offset, SourceBytes(h.vdu.colorModeSource),
                           h.vdu.width * h.vdu.height)
        THEN [h |-> [h EXCEPT !.vdu.stats.framebufferErrors = @ + 1], ok |-> FALSE]
        ELSE [h |-> [h EXCEPT !.vdu.data = copiedData(h.vdu, h.mem[region], offset)],
              ok |-> TRUE]

\* triggerVBlank()
triggerVBlank(h) ==
    [h EXCEPT !.vdu.status = <<@[1], Or16(@[2], 1)>>,
              !.vdu.stats.vblanks = @ + 1,
              !.vdu.timeouts = @ + 1]

\* the callback triggerVBlank leaves with setTimeout
vblankEnd(h) ==
    [h EXCEPT !.vdu.status = <<@[1], @[2] - (@[2] % 2)>>,
              !.vdu.timeouts = @ - 1]

\* render once the framebuffer has been copied as c
renderCopied(c) ==
    IF ~c.ok THEN [h |-> [c.h EXCEPT !.vdu.stats.framebufferErrors = @ + 1], ret |-> FALSE]
    ELSE [h |-> triggerVBlank([c.h EXCEPT !.vdu.stats.framesRendered = @ + 1]),
          ret |-> TRUE]

\* render once the address has been validated as f
renderValidated(f) ==
    IF ~f.ok THEN [h |-> [f.h EXCEPT !.vdu.stats.framebufferErrors = @ + 1], ret |-> FALSE]
    ELSE renderCopied(copyFramebuffer(f.h))

\* render(miu) past the display-enable test
renderEnabled(h, miu) ==
    CASE miu = "null" ->
           [h |-> [h EXCEPT !.vdu.stats.framebufferErrors = @ + 1], ret |-> FALSE]
      [] miu = "dram" ->
           [h |-> [h EXCEPT !.vdu.stats.framebufferErrors = @ + 1], ret |-> FALSE]
      [] OTHER -> renderValidated(validateFBAddress(h))

\* render(miu): the hardware after the call and the value returned
vduRender(h, miu) ==
    IF h.vdu.ctrl[2] % 2 = 0
    THEN [h |-> [h EXCEPT !.vdu.stats.framesAttempted = @ + 1], ret |-> FALSE]
    ELSE renderEnabled([h EXCEPT !.vdu.stats.framesAttempted = @ + 1], miu)

-----------------------------------------------------------------------------
(* CPU: arithmetic and logic unit (cpu.js).  An ALU method returns the     *)
(* result word and the CPU with its flags after the call.                  *)

Xor16(a, b) == a + b - 2 * And16(a, b)
Xor32(a, b) == <<Xor16(a[1], b[1]), Xor16(a[2], b[2])>>

\* JS a >>> s for s in 0..31
Shr32(a, s) ==
    IF s = 0 THEN a
    ELSE IF s < 16
         THEN <<a[1] \div Pow2(s),
                (a[1] % Pow2(s)) * Pow2(16 - s) + a[2] \div Pow2(s)>>
         ELSE <<0, a[1] \div Pow2(s - 16)>>

\* (a - b) >>> 0
Sub32(a, b) == Add32(a, Add32(Not32(b), FromInt(1)))

\* a < b on the unsigned values
Lt32(a, b) == a[1] < b[1] \/ (a[1] = b[1] /\ a[2] < b[2])

updateBasicFlags(c, res) ==
    [c EXCEPT !.N = Bit(res, 31), !.Z = IF IsZero32(res) THEN 1 ELSE 0]

\* the ADD that leaves Z as it was
addKeepZ(c, a, b, updateFlags) ==
    LET res == Add32(a, b)
    IN  [res |-> res,
         c |-> IF updateFlags
               THEN [c EXCEPT !.N = Bit(res, 31),
                              !.C = IF Lt32(Not32(a), b) THEN 1 ELSE 0,
                              !.V = Bit(And32(Not32(Xor32(a, b)), Xor32(a, res)), 31)]
               ELSE c]

add(c, a, b, updateFlags) ==
    LET res == Add32(a, b)
    IN  [res |-> res,
         c |-> IF updateFlags
               THEN [updateBasicFlags(c, res) EXCEPT
                        !.C = IF Lt32(Not32(a), b) THEN 1 ELSE 0,
                        !.V = Bit(And32(Not32(Xor32(a, b)), Xor32(a, res)), 31)]
               ELSE c]

\* b + this.C is a JS number and may be 2^32
addc(c, a, b, updateFlags) ==
    LET res == Add32(Add32(a, b), FromInt(c.C))
        over == (b = Ones32 /\ c.C = 1) \/ Lt32(Not32(a), Add32(b, FromInt(c.C)))
    IN  [res |-> res,
         c |-> IF updateFlags
               THEN [updateBasicFlags(c, res) EXCEPT
                        !.C = IF over THEN 1 ELSE 0,
                        !.V = Bit(And32(Not32(Xor32(a, b)), Xor32(a, res)), 31)]
               ELSE c]

\* the SUB whose carry is the borrow (C = 1 when a < b)
subBorrowCarry(c, a, b, updateFlags) ==
    LET res == Sub32(a, b)
    IN  [res |-> res,
         c |-> IF updateFlags
               THEN [updateBasicFlags(c, res) EXCEPT
                        !.C = IF Lt32(a, b) THEN 1 ELSE 0,
                        !.V = Bit(And32(Xor32(a, b), Not32(Xor32(res, b))), 31)]
               ELSE c]

sub(c, a, b, updateFlags) ==
    LET res == Sub32(a, b)
    IN  [res |-> res,
         c |-> IF updateFlags
               THEN [updateBasicFlags(c, res) EXCEPT
                        !.C = IF Lt32(a, b) THEN 0 ELSE 1,
                        !.V = Bit(And32(Xor32(a, b), Not32(Xor32(res, b))), 31)]
               ELSE c]

\* b + borrow is a JS number and may be 2^32
subc(c, a, b, updateFlags) ==
    LET borrow == IF c.C = 0 THEN 1 ELSE 0
        res == Sub32(Sub32(a, b), FromInt(borrow))
        geq == ~(b = Ones32 /\ borrow = 1) /\ ~Lt32(a, Add32(b, FromInt(borrow)))
    IN  [res |-> res,
         c |-> IF updateFlags
               THEN [updateBasicFlags(c, res) EXCEPT
                        !.C = IF geq THEN 1 ELSE 0,
                        !.V = Bit(And32(Xor32(a, b), Not32(Xor32(res, b))), 31)]
               ELSE c]

neg(c, a, updateFlags) ==
    LET res == Sub32(Zero32, a)
    IN  [res |-> res,
         c |-> IF updateFlags
               THEN [updateBasicFlags(c, res) EXCEPT
                        !.C = IF IsZero32(a) THEN 1 ELSE 0,
                        !.V = IF a = <<32768, 0>> THEN 1 ELSE 0]
               ELSE c]

bitOp(c, a, b, type, updateFlags) ==
    LET res == CASE type = "and" -> And32(a, b)
                 [] type = "or" -> Or32(a, b)
                 [] type = "xor" -> Xor32(a, b)
                 [] type = "not" -> Not32(a)
    IN  [res |-> res, c |-> IF updateFlags THEN updateBasicFlags(c, res) ELSE c]

\* the shift and rotate amounts are given by their low 16 bits; each method
\* keeps the low five (sa & 0x1F)
sll(c, a, amount, updateFlags) ==
    LET sa == amount % 32
        res == Shl32(a, sa)
        f == updateBasicFlags(c, res)
    IN  [res |-> res,
         c |-> IF ~updateFlags THEN c
               ELSE IF sa > 0 THEN [f EXCEPT !.C = Bit(a, 32 - sa)] ELSE f]

srl(c, a, amount, updateFlags) ==
    LET sa == amount % 32
        res == Shr32(a, sa)
        f == updateBasicFlags(c, res)
    IN  [res |-> res,
         c |-> IF ~updateFlags THEN c
               ELSE IF sa > 0 THEN [f EXCEPT !.C = Bit(a, sa - 1)] ELSE f]

\* ((a | 0) >> sa) >>> 0
sra(c, a, amount, updateFlags) ==
    LET sa == amount % 32
        res == IF Bit(a, 31) = 1 THEN Not32(Shr32(Not32(a), sa)) ELSE Shr32(a, sa)
        f == updateBasicFlags(c, res)
    IN  [res |-> res,
         c |-> IF ~updateFlags THEN c
               ELSE IF sa > 0 THEN [f EXCEPT !.C = Bit(a, sa - 1)] ELSE f]

ror(c, a, amount, updateFlags) ==
    LET sa == amount % 32
        res == Or32(Shr32(a, sa), Shl32(a, 32 - sa))
    IN  IF sa = 0 THEN [res |-> a, c |-> c]
        ELSE [res |-> res,
              c |-> IF updateFlags
                    THEN [updateBasicFlags(c, res) EXCEPT !.C = Bit(a, sa - 1)]
                    ELSE c]

rol(c, a, amount, updateFlags) ==
    LET sa == amount % 32
        res == Or32(Shl32(a, sa), Shr32(a, 32 - sa))
    IN  IF sa = 0 THEN [res |-> a, c |-> c]
        ELSE [res |-> res,
              c |-> IF updateFlags
                    THEN [updateBasicFlags(c, res) EXCEPT !.C = Bit(a, 32 - sa)]
                    ELSE c]

rorc(c, a, updateFlags) ==
    LET res == Or32(Shr32(a, 1), Shl32(FromInt(c.C % 2), 31))
    IN  [res |-> res,
         c |-> IF updateFlags
               THEN [updateBasicFlags(c, res) EXCEPT !.C = Bit(a, 0)]
               ELSE c]

rolc(c, a, updateFlags) ==
    LET res == Or32(Shl32(a, 1), FromInt(c.C % 2))
    IN  [res |-> res,
         c |-> IF updateFlags
               THEN [updateBasicFlags(c, res) EXCEPT !.C = Bit(a, 31)]
               ELSE c]

extsb(c, a, updateFlags) ==
    LET b == a[2] % 256
        res == IF b >= 128 THEN <<65535, 65280 + b>> ELSE <<0, b>>
    IN  [res |-> res, c |-> IF updateFlags THEN updateBasicFlags(c, res) ELSE c]

extsh(c, a, updateFlags) ==
    LET res == IF a[2] >= 32768 THEN <<65535, a[2]>> ELSE <<0, a[2]>>
    IN  [res |-> res, c |-> IF updateFlags THEN updateBasicFlags(c, res) ELSE c]

extzb(c, a, updateFlags) ==
    LET res == <<0, a[2] % 256>>
    IN  [res |-> res, c |-> IF updateFlags THEN updateBasicFlags(c, res) ELSE c]

extzh(c, a, updateFlags) ==
    LET res == <<0, a[2]>>
    IN  [res |-> res, c |-> IF updateFlags THEN updateBasicFlags(c, res) ELSE c]

bitclr(c, a, bitIdx, updateFlags) ==
    LET res == And32(a, Not32(IrqBit(bitIdx % 32)))
    IN  [res |-> res, c |-> IF updateFlags THEN updateBasicFlags(c, res) ELSE c]

bitset(c, a, bitIdx, updateFlags) ==
    LET res == Or32(a, IrqBit(bitIdx % 32))
    IN  [res |-> res, c |-> IF updateFlags THEN updateBasicFlags(c, res) ELSE c]

bittst(c, a, bitIdx) ==
    LET t == Bit(a, bitIdx % 32)
    IN  [c EXCEPT !.T = t, !.Z = 1 - t]

bittgl(c, a, bitIdx, updateFlags) ==
    LET res == Xor32(a, IrqBit(bitIdx % 32))
    IN  [res |-> res, c |-> IF updateFlags THEN updateBasicFlags(c, res) ELSE c]

conditional(c, cond) ==
    LET cc == cond % 16
    IN  CASE cc = 0 -> c.C = 1
          [] cc = 1 -> c.C = 0
          [] cc = 2 -> c.C = 1 /\ c.Z = 0
          [] cc = 3 -> c.C = 0 \/ c.Z = 1
          [] cc = 4 -> c.Z = 1
          [] cc = 5 -> c.Z = 0
          [] cc = 6 -> c.N = c.V /\ c.Z = 0
          [] cc = 7 -> c.N # c.V \/ c.Z = 1
          [] cc = 8 -> c.N = c.V
          [] cc = 9 -> c.N # c.V
          [] cc = 10 -> c.N = 1
          [] cc = 11 -> c.N = 0
          [] cc = 12 -> c.V = 1
          [] cc = 13 -> c.V = 0
          [] cc = 14 -> c.T = 1
          [] cc = 15 -> TRUE

\* Math.floor(uA / uB) and uA % uB for uB # 0, bit by bit from bit i down:
\* the JS quotient of two integers below 2^32 is exact enough for floor and
\* trunc to give the integer quotient.  rem is below b, so 2 * rem + 1 needs
\* 33 bits: its high half may reach 2^17.  Each round's quotient and
\* remainder are evaluated before the next round begins
RECURSIVE DivMod32(_, _, _, _, _)
DivMod32(a, b, i, quo, rem) ==
    IF i < 0 THEN [quo |-> quo, rem |-> rem]
    ELSE LET r2 == <<2 * rem[1] + rem[2] \div 32768, ((2 * rem[2]) % H16) + Bit(a, i)>>
             fits == ~Lt32(r2, b)
             r3 == IF ~fits THEN r2
                   ELSE IF r2[2] >= b[2] THEN <<r2[1] - b[1], r2[2] - b[2]>>
                   ELSE <<r2[1] - b[1] - 1, r2[2] - b[2] + H16>>
             q2 == IF fits THEN Or32(quo, IrqBit(i)) ELSE quo
         IN  IF q2 = q2 /\ r3 = r3 THEN DivMod32(a, b, i - 1, q2, r3)
             ELSE [quo |-> q2, rem |-> r3]

\* |x| of the int32 x | 0, as an unsigned word
Abs32(x) == IF Bit(x, 31) = 1 THEN Sub32(Zero32, x) ELSE x

\* a signed division that rounds the quotient toward minus infinity
execDivFloor(c, a, b) ==
    IF IsZero32(b) THEN c
    ELSE LET d == DivMod32(Abs32(a), Abs32(b), 31, Zero32, Zero32)
             differ == Bit(a, 31) # Bit(b, 31)
             down == differ /\ ~IsZero32(d.rem)
             q == IF down THEN Add32(d.quo, FromInt(1)) ELSE d.quo
         IN  [c EXCEPT !.CEL = IF differ THEN Sub32(Zero32, q) ELSE q,
                       !.CEH = Sub32(a, IF differ THEN Sub32(Zero32, q) ELSE q)]

\* Math.trunc(sA / sB) >>> 0 and (sA % sB) >>> 0: the quotient of the
\* magnitudes with the sign of the operands' product, the remainder with the
\* sign of the dividend
execDiv(c, a, b) ==
    IF IsZero32(b) THEN c
    ELSE LET d == DivMod32(Abs32(a), Abs32(b), 31, Zero32, Zero32)
         IN  [c EXCEPT !.CEL = IF Bit(a, 31) # Bit(b, 31)
                               THEN Sub32(Zero32, d.quo) ELSE d.quo,
                       !.CEH = IF Bit(a, 31) = 1
                               THEN Sub32(Zero32, d.rem) ELSE d.rem]

execDivu(c, a, b) ==
    IF IsZero32(b) THEN c
    ELSE LET d == DivMod32(a, b, 31, Zero32, Zero32)
         IN  [c EXCEPT !.CEL = d.quo, !.CEH = d.rem]

\* r[rD + 1] is written only when rD < 31
moveFromCE(c, rD, rB) ==
    LET sel == rB % 4
    IN  CASE sel = 1 -> [c EXCEPT !.r[rD] = c.CEL]
          [] sel = 2 -> [c EXCEPT !.r[rD] = c.CEH]
          [] sel = 3 -> IF rD < 31
                        THEN [c EXCEPT !.r[rD] = c.CEL, !.r[rD + 1] = c.CEH]
                        ELSE [c EXCEPT !.r[rD] = c.CEL]
          [] OTHER -> c

moveToCE(c, rD, rB) ==
    LET sel == rB % 4
    IN  CASE sel = 1 -> [c EXCEPT !.CEL = c.r[rD]]
          [] sel = 2 -> [c EXCEPT !.CEH = c.r[rD]]
          [] sel = 3 -> IF rD < 31
                        THEN [c EXCEPT !.CEL = c.r[rD], !.CEH = c.r[rD + 1]]
                        ELSE [c EXCEPT !.CEL = c.r[rD]]
          [] OTHER -> c

\* the eight bytes of an operand of the 64-bit product, sign-extended for
\* the signed multiply
ExtBytes(x, signed) ==
    [i \in 0..7 |-> IF i < 4 THEN ByteOf(x, i)
                    ELSE IF signed /\ Bit(x, 31) = 1 THEN 255 ELSE 0]

RECURSIVE ColSum(_, _, _, _)
ColSum(ea, eb, k, i) ==
    IF i > k THEN 0 ELSE ea[i] * eb[k - i] + ColSum(ea, eb, k, i + 1)

\* bytes k..7 of the product modulo 2^64
RECURSIVE MulBytes(_, _, _, _)
MulBytes(ea, eb, k, carry) ==
    IF k > 7 THEN <<>>
    ELSE LET s == ColSum(ea, eb, k, 0) + carry
         IN  <<s % 256>> \o MulBytes(ea, eb, k + 1, s \div 256)

\* execMul (signed) and execMulu: CEL and CEH are the halves of the product
execMulAny(c, a, b, signed) ==
    LET p == MulBytes(ExtBytes(a, signed), ExtBytes(b, signed), 0, 0)
    IN  [c EXCEPT !.CEL = <<p[3] + 256 * p[4], p[1] + 256 * p[2]>>,
                  !.CEH = <<p[7] + 256 * p[8], p[5] + 256 * p[6]>>]

execMul(c, a, b) == execMulAny(c, a, b, TRUE)
execMulu(c, a, b) == execMulAny(c, a, b, FALSE)

-----------------------------------------------------------------------------
(* CPU: instruction fields, the SP form and step (cpu.js) *)

\* (insn >>> 27) & 0x1F, (insn >>> 22) & 0x1F, (insn >>> 17) & 0x1F,
\* (insn >>> 12) & 0x1F, (insn >>> 1) & 0x3F and insn & 1
OpOf(insn) == insn[1] \div 2048
RdOf(insn) == (insn[1] \div 64) % 32
RaOf(insn) == (insn[1] \div 2) % 32
RbOf(insn) == (insn[1] % 2) * 16 + insn[2] \div 4096
Func6Of(insn) == (insn[2] \div 2) % 64
CuOf(insn) == insn[2] % 2

\* this.r[rD] = this.<method>(...): the flags and the result of x go to the CPU
AluTo(h, rD, x) == [h EXCEPT !.cpu = [x.c EXCEPT !.r[rD] = x.res]]

\* this.r[rD] = this.miu.readU8 / readU32(this.r[rA])
Loaded(m, rD) == [m.h EXCEPT !.cpu.r[rD] = m.ret]
LoadTo(h, rD, width, address) == Loaded(miuRead(h, width, address), rD)

\* execSpForm(insn): the hardware after it, and the PC increment it returns
execSpForm(h, insn) ==
    LET rD == RdOf(insn)
        rA == RaOf(insn)
        rB == RbOf(insn)
        func6 == Func6Of(insn)
        CU == CuOf(insn)
        c == h.cpu
        a == c.r[rA]
        b == c.r[rB]
        uf == CU = 1
        cmp(x) == [x.c EXCEPT !.T = IF conditional(x.c, rD) THEN 1 ELSE 0]
        jump == func6 = 4 /\ conditional(c, rB)
        after ==
          CASE func6 = 2 -> IF conditional(c, rB) THEN cpuException(h, 2) ELSE h
            [] func6 = 3 -> cpuException(h, 3)
            [] func6 = 4 ->
                 IF jump
                 THEN [h EXCEPT !.cpu =
                          [(IF uf THEN [c EXCEPT !.r[3] = Add32(c.pc, FromInt(4))] ELSE c)
                              EXCEPT !.pc = a]]
                 ELSE h
            [] func6 = 6 -> LoadTo(h, rD, 32, a)
            [] func6 = 7 -> miuWrite(h, 32, a, c.r[rD])
            [] func6 = 8 -> AluTo(h, rD, add(c, a, b, uf))
            [] func6 = 9 -> AluTo(h, rD, addc(c, a, b, uf))
            [] func6 = 10 -> AluTo(h, rD, sub(c, a, b, uf))
            [] func6 = 11 -> AluTo(h, rD, subc(c, a, b, uf))
            [] func6 = 12 -> [h EXCEPT !.cpu = cmp(sub(c, a, b, TRUE))]
            [] func6 = 13 -> [h EXCEPT !.cpu = cmp(sub(c, a, Zero32, TRUE))]
            [] func6 = 15 -> AluTo(h, rD, neg(c, a, uf))
            [] func6 = 16 -> AluTo(h, rD, bitOp(c, a, b, "and", uf))
            [] func6 = 17 -> AluTo(h, rD, bitOp(c, a, b, "or", uf))
            [] func6 = 18 -> AluTo(h, rD, bitOp(c, a, Zero32, "not", uf))
            [] func6 = 19 -> AluTo(h, rD, bitOp(c, a, b, "xor", uf))
            [] func6 = 20 -> AluTo(h, rD, bitclr(c, a, rB, uf))
            [] func6 = 21 -> AluTo(h, rD, bitset(c, a, rB, uf))
            [] func6 = 22 -> [h EXCEPT !.cpu = bittst(c, a, rB)]
            [] func6 = 23 -> AluTo(h, rD, bittgl(c, a, rB, uf))
            [] func6 = 24 -> AluTo(h, rD, sll(c, a, b[2], uf))
            [] func6 = 26 -> AluTo(h, rD, srl(c, a, b[2], uf))
            [] func6 = 27 -> AluTo(h, rD, sra(c, a, b[2], uf))
            [] func6 = 28 -> AluTo(h, rD, ror(c, a, b[2], uf))
            [] func6 = 29 -> AluTo(h, rD, rorc(c, a, uf))
            [] func6 = 30 -> AluTo(h, rD, rol(c, a, b[2], uf))
            [] func6 = 31 -> AluTo(h, rD, rolc(c, a, uf))
            [] func6 = 32 -> [h EXCEPT !.cpu = execMul(c, a, b)]
            [] func6 = 33 -> [h EXCEPT !.cpu = execMulu(c, a, b)]
            [] func6 = 34 -> [h EXCEPT !.cpu = execDiv(c, a, b)]
            [] func6 = 35 -> [h EXCEPT !.cpu = execDivu(c, a, b)]
            [] func6 = 36 -> [h EXCEPT !.cpu = moveFromCE(c, rD, rB)]
            [] func6 = 37 -> [h EXCEPT !.cpu = moveToCE(c, rD, rB)]
            [] func6 = 40 -> [h EXCEPT !.cpu.r[rD] = IF rB = 0 THEN c.sr0 ELSE c.sr[rB]]
            [] func6 = 41 -> [h EXCEPT !.cpu = setSystemRegister(c, rB, a)]
            [] func6 = 42 -> [h EXCEPT !.cpu.T = IF conditional(c, rB) THEN 1 ELSE 0]
            [] func6 = 43 -> IF conditional(c, rB) THEN [h EXCEPT !.cpu.r[rD] = a] ELSE h
            [] func6 = 44 -> AluTo(h, rD, extsb(c, a, uf))
            [] func6 = 45 -> AluTo(h, rD, extsh(c, a, uf))
            [] func6 = 46 -> AluTo(h, rD, extzb(c, a, uf))
            [] func6 = 47 -> AluTo(h, rD, extzh(c, a, uf))
            [] func6 = 48 -> LoadTo(h, rD, 8, a)
            [] func6 = 49 -> LoadTo(h, rD, 32, a)
            [] func6 = 52 -> miuWrite(h, 8, a, <<0, c.r[rD][2] % 256>>)
            [] func6 = 53 -> miuWrite(h, 32, a, c.r[rD])
            [] func6 = 56 -> AluTo(h, rD, sll(c, a, rB, uf))
            [] func6 = 58 -> AluTo(h, rD, srl(c, a, rB, uf))
            [] func6 = 59 -> AluTo(h, rD, sra(c, a, rB, uf))
            [] func6 = 60 -> AluTo(h, rD, ror(c, a, rB, uf))
            [] func6 = 61 -> AluTo(h, rD, rorc(c, a, TRUE))
            [] func6 = 62 -> AluTo(h, rD, rol(c, a, rB, uf))
            [] func6 = 63 -> AluTo(h, rD, rolc(c, a, TRUE))
            [] OTHER -> h
    IN  [h |-> after, result |-> IF jump THEN 0 ELSE 4]

\* signExtend(x, b) of the low b bits of x, for b up to 16
signExtend(x, b) ==
    IF (x % Pow2(b)) >= Pow2(b - 1)
    THEN <<65535, (65536 - Pow2(b)) + (x % Pow2(b))>>
    ELSE <<0, x % Pow2(b)>>

\* (insn >>> 19) & 0x07 and (insn >>> 1) & 0xFFFF
Func3Of(insn) == (insn[1] \div 8) % 8
Imm16Of(insn) == (insn[1] % 2) * 32768 + insn[2] \div 2

\* the inner switch of execIForm on func3, imm the immediate operand
execIFunc(h, rD, func3, imm) ==
    CASE func3 = 0 -> AluTo(h, rD, add(h.cpu, h.cpu.r[rD], imm, FALSE))
      [] func3 = 2 -> [h EXCEPT !.cpu = sub(h.cpu, h.cpu.r[rD], imm, TRUE).c]
      [] func3 = 4 -> AluTo(h, rD, bitOp(h.cpu, h.cpu.r[rD], imm, "and", FALSE))
      [] func3 = 5 -> AluTo(h, rD, bitOp(h.cpu, h.cpu.r[rD], imm, "or", FALSE))
      [] func3 = 6 -> [h EXCEPT !.cpu.r[rD] = imm]
      [] OTHER -> h

\* an I form that takes the low 16 bits of the word as the immediate
execIFormRawImm(h, insn) ==
    [h |-> execIFunc(h, RdOf(insn), Func3Of(insn),
                     IF OpOf(insn) = 1 THEN signExtend(insn[2], 16)
                     ELSE <<insn[2], 0>>),
     result |-> 4]

\* execIForm(insn): OP 0x01 takes the sign-extended immediate, OP 0x05 the
\* immediate shifted left by 16
execIForm(h, insn) ==
    [h |-> execIFunc(h, RdOf(insn), Func3Of(insn),
                     IF OpOf(insn) = 1 THEN signExtend(Imm16Of(insn), 16)
                     ELSE <<Imm16Of(insn), 0>>),
     result |-> 4]

\* the instruction forms of step that are translated here: the SP form
\* (OP 0), the I form (OP 1 and 5) and the OP value no case of the switch
\* names (6)
StepForms == {0, 1, 5, 6}

\* setRegister(idx, value)
setRegister(c, idx, value) ==
    IF idx >= 0 /\ idx < 32 THEN [c EXCEPT !.r[idx] = value] ELSE c

\* step(): FALSE when halted; otherwise fetch at PC, execute, advance the PC
\* by the increment the form returns unless that is 0
\* the end of step: the PC moves on by the increment unless that is 0
stepAdvance(e) ==
    [h |-> [e.h EXCEPT !.cpu.pc = IF e.result # 0 THEN Add32(@, FromInt(e.result))
                                  ELSE @,
                       !.cpu.cycles = @ + 1,
                       !.cpu.instructions = @ + 1],
     ok |-> TRUE]

\* the switch of step on the OP field of the word fetched; h is the hardware
\* after the fetch
stepExecute(h, encoded) ==
    stepAdvance(CASE OpOf(encoded) = 0 -> execSpForm(h, encoded)
                  [] OpOf(encoded) \in {1, 5} -> execIForm(h, encoded)
                  [] OTHER -> [h |-> h, result |-> 4])

\* the fetch f of step goes to the call log
stepFetched(f) ==
    stepExecute([f.h EXCEPT !.calls = Append(@, Call("step", OpOf(f.ret), f.ret))],
                f.ret)

step(h) ==
    IF h.cpu.halted THEN [h |-> h, ok |-> FALSE]
    ELSE stepFetched(miuRead(h, 32, h.cpu.pc))

\* whether the word step would fetch is of a translated form
Fetchable(h) == OpOf(miuRead(h, 32, h.cpu.pc).ret) \in StepForms

------------------------------------------------------------------------------
(* Engine (src/main.js, class HyperScanEngine, with the overrides that     *)
(* src/hyperscan/integration.js installs on its prototype)                  *)

\* PLATFORM_CONFIG, scaled down: the cycles of a frame (564480) and of a
\* peripheral slice (10000), the bytes of the flash (8 MB)
CPU_CYCLES_PER_FRAME == 12
CYCLES_PER_SLICE == 8
FLASH_SIZE == 512

\* PLATFORM_CONFIG: 0x9E000000, 0x9E000100, 0x614D3832 ("aM82"), 0x4E
BOOT_ADDRESS_DEFAULT == <<SEGMENT_FLASH * 256, 0>>
BOOT_ADDRESS_FROM_MAGIC == <<SEGMENT_FLASH * 256, 256>>
BOOT_MAGIC == <<24909, 14386>>
BOOT_MAGIC_OFFSET == 78
IRQ_VBLANK == 4

\* the engine after its constructor: no hardware yet (built is hw.miu #
\* null), no ROM, no frame callback.  frameId 0 is null; pending holds the ids
\* of the animation-frame callbacks requested and neither run nor cancelled;
\* loading is the image whose file.arrayBuffer() has not settled yet (0: none)
EngineNew ==
    [state |-> "STOPPED", romLoaded |-> FALSE, built |-> FALSE,
     frameId |-> 0, pending |-> {}, nextId |-> 1,
     frameCount |-> 0, cyclesExecuted |-> 0,
     loading |-> 0, breakpoints |-> {}]

\* clock.frameId = requestAnimationFrame(ts => this.runLoop(ts))
requestAnimationFrame(h) ==
    [h EXCEPT !.eng.frameId = h.eng.nextId,
              !.eng.pending = @ \cup {h.eng.nextId},
              !.eng.nextId = @ + 1]

\* if (clock.frameId) { cancelAnimationFrame(clock.frameId); frameId = null }
cancelAnimationFrame(h) ==
    IF h.eng.frameId = 0 THEN h
    ELSE [h EXCEPT !.eng.pending = @ \ {h.eng.frameId}, !.eng.frameId = 0]

pause(h) ==
    IF h.eng.state = "RUNNING"
    THEN cancelAnimationFrame([h EXCEPT !.eng.state = "PAUSED"])
    ELSE h

\* miu.dump(address, 256): 256 readU8 calls from address & ~0x0F on, which
\* count in the statistics of the one or two segments they fall in.  The
\* engine's PC lies in the flash or in segment 0, so the bytes come from
\* array regions or from unmapped segments
CountReads(h, segment, n) ==
    IF n = 0 THEN h
    ELSE IF h.segs[segment] = "none"
    THEN [h EXCEPT !.segStats[segment].unmappedReads = @ + n]
    ELSE [h EXCEPT !.segStats[segment].reads = @ + n]

dump(h, address) ==
    LET addr == And32(address, <<65535, 65520>>)
        left == 16777216 - getOffset(addr)
        n1 == IF left < 256 THEN left ELSE 256
    IN  CountReads(CountReads(h, getSegment(addr), n1),
                   (getSegment(addr) + 1) % 256, 256 - n1)

\* handleFatalError(err), with config.dumpMemoryOnError at its default true
handleFatalError(h) ==
    LET h1 == cancelAnimationFrame([h EXCEPT !.eng.state = "ERROR"])
    IN  IF h1.eng.built THEN dump(h1, Sub32(h1.cpu.pc, FromInt(16))) ELSE h1

\* setupHardware(): cpu.reset(), a new MIU with new DRAM, I/O and flash
\* regions, new peripherals and I/O handlers.  hw.romLoaded, state and the
\* frame callbacks are not touched
setupHardware(h) ==
    [h EXCEPT
        !.cpu = CpuReset,
        !.eng.cyclesExecuted = 0,
        !.eng.built = TRUE,
        !.segs = [s \in Segments |->
                     CASE s = SEGMENT_DRAM -> "dram"
                       [] s = SEGMENT_IO -> "io"
                       [] s = SEGMENT_FLASH -> "flash"
                       [] OTHER -> "none"],
        !.segStats = [s \in Segments |-> ZeroStats],
        !.mem = [dram |-> ArrayMemoryRegion(MemSize),
                 flash |-> ArrayMemoryRegion(FLASH_SIZE)],
        !.ioRegs = [x \in {} |-> Zero32],
        !.vdu = VduNew,
        !.timers = [i \in 0..2 |-> TimerNew],
        !.timerStats = [totalTicks |-> 0, totalInterrupts |-> 0],
        !.intc = IntcReset,
        !.uart = UartNew]

\* data[i] of a Uint8Array held as a sequence; undefined past the end,
\* which the bit operators take as 0
ByteAt(data, i) == IF i < Len(data) THEN data[i + 1] ELSE 0

\* the endianness test of loadROM: op_LE = (insn_LE >>> 27) & 0x1F is the
\* top five bits of byte 0, op_BE those of byte 3
NeedsSwap(data) ==
    LET op_LE == (ByteAt(data, 0) \div 8) % 32
        op_BE == (ByteAt(data, 3) \div 8) % 32
    IN  op_LE > 31 /\ op_BE <= 31

\* the conversion loop of loadROM: every whole group of four bytes reversed,
\* a shorter tail copied
Swap4(data) ==
    [k \in 1..Len(data) |->
        LET i == ((k - 1) \div 4) * 4
        IN  IF i + 3 < Len(data) THEN data[i + 4 - ((k - 1) % 4)] ELSE data[k]]

\* ArrayMemoryRegion.load(data, 0) for a Uint8Array: u8.set(data, 0), a
\* RangeError when the data are longer than the region
arrLoad(r, data) ==
    IF Len(data) > U8Length(r) THEN [r |-> r, threw |-> TRUE]
    ELSE [r |-> [r EXCEPT !.bytes = [i \in DOMAIN r.bytes |->
                                        IF i < Len(data) THEN data[i + 1]
                                        ELSE r.bytes[i]]],
          threw |-> FALSE]

\* the boot address loadROM takes from the image
BootAddrOf(data) ==
    IF /\ Len(data) > BOOT_MAGIC_OFFSET + 4
       /\ <<256 * data[BOOT_MAGIC_OFFSET + 1] + data[BOOT_MAGIC_OFFSET + 2],
            256 * data[BOOT_MAGIC_OFFSET + 3] + data[BOOT_MAGIC_OFFSET + 4]>>
          = BOOT_MAGIC
    THEN BOOT_ADDRESS_FROM_MAGIC
    ELSE BOOT_ADDRESS_DEFAULT

\* loadROM(file) up to its await: pause(), state = LOADING
loadROMBegin(h, rom) ==
    [pause(h) EXCEPT !.eng.state = "LOADING", !.eng.loading = rom]

\* the end of loadROM: f is the read of the word at the boot address
loadROMVerify(f) ==
    IF OpOf(f.ret) > 31 THEN handleFatalError(f.h)
    ELSE [f.h EXCEPT !.eng.state = "PAUSED"]

\* loadROM from flash.load on; h is the hardware setupHardware has built,
\* data the bytes after the endianness step
loadROMCommit(h, data) ==
    LET ld == arrLoad(h.mem.flash, data)
    IN  IF ld.threw THEN handleFatalError(h)
        ELSE loadROMVerify(miuRead([h EXCEPT !.mem.flash = ld.r,
                                             !.eng.romLoaded = TRUE,
                                             !.cpu.pc = BootAddrOf(data)],
                                   32, BootAddrOf(data)))

\* loadROM(file) after file.arrayBuffer() has given the bytes
loadROMData(h, bytes) ==
    loadROMCommit(setupHardware(h), IF NeedsSwap(bytes) THEN Swap4(bytes) ELSE bytes)

start(h) ==
    IF ~h.eng.romLoaded THEN h
    ELSE IF h.eng.state = "RUNNING" THEN h
    ELSE requestAnimationFrame([h EXCEPT !.eng.state = "RUNNING"])

\* dbg.breakpoints.checkBreakpoint(cpu).hit for enabled breakpoints without
\* a condition
checkBreakpoint(h) == h.cpu.pc \in h.eng.breakpoints

\* _updatePeripherals()
updatePeripherals(h) == timerControllerTick(h, CYCLES_PER_SLICE)

\* vdu.render(hw.dram): the DRAM region has neither getRegion nor segments,
\* so the address validation throws inside render's try block and render
\* returns false, the frame counted as attempted and as a framebuffer error
render(h) ==
    [vduRender(h, "dram").h EXCEPT !.calls = Append(@, Call("render", 0, Zero32))]

\* the while loop of runLoop; out is how it ended: 1 ran to the end, 2 a
\* breakpoint paused it, 3 a step failed
RECURSIVE frameLoop(_, _, _)

\* the loop body after clock.cyclesExecuted += 4
frameSlice(h, cyclesToRun, sliceCycles) ==
    IF sliceCycles <= 0
    THEN frameLoop(updatePeripherals(h), cyclesToRun, CYCLES_PER_SLICE)
    ELSE frameLoop(h, cyclesToRun, sliceCycles)

\* the loop body after cpu.step() has returned s
frameStepped(s, cyclesToRun, sliceCycles) ==
    IF ~s.ok THEN [h |-> handleFatalError(s.h), out |-> 3]
    ELSE frameSlice([s.h EXCEPT !.eng.cyclesExecuted = @ + 4],
                    cyclesToRun - 4, sliceCycles - 4)

\* a loop that looks for a breakpoint after the step instead of before it
frameLoopAfterStep(s, cyclesToRun, sliceCycles) ==
    IF checkBreakpoint(s.h) THEN [h |-> pause(s.h), out |-> 2]
    ELSE frameStepped(s, cyclesToRun, sliceCycles)

frameLoopStepsFirst(h, cyclesToRun, sliceCycles) ==
    IF cyclesToRun <= 0 THEN [h |-> h, out |-> 1]
    ELSE frameLoopAfterStep(step(h), cyclesToRun, sliceCycles)

frameLoop(h, cyclesToRun, sliceCycles) ==
    IF cyclesToRun <= 0 THEN [h |-> h, out |-> 1]
    ELSE IF checkBreakpoint(h) THEN [h |-> pause(h), out |-> 2]
    ELSE frameStepped(step(h), cyclesToRun, sliceCycles)

\* a frame that renders before it signals the vertical blank
frameEndRenderFirst(l) ==
    IF l.out # 1 THEN l
    ELSE [h |-> requestAnimationFrame(
                    trigger(render([l.h EXCEPT !.eng.frameCount = @ + 1]),
                            TRUE, IRQ_VBLANK)),
          out |-> 1]

runLoopRenderFirst(h) ==
    IF h.eng.state # "RUNNING" THEN [h |-> h, out |-> 0]
    ELSE frameEndRenderFirst(frameLoop(h, CPU_CYCLES_PER_FRAME, CYCLES_PER_SLICE))

\* runLoop(timestamp); out 0 is the return of a callback that finds the
\* engine not RUNNING
\* the rest of runLoop once the while loop has ended as l: a return from
\* inside the loop skips it
frameEnd(l) ==
    IF l.out # 1 THEN l
    ELSE [h |-> requestAnimationFrame(
                    render(trigger([l.h EXCEPT !.eng.frameCount = @ + 1],
                                   TRUE, IRQ_VBLANK))),
          out |-> 1]

runLoop(h) ==
    IF h.eng.state # "RUNNING" THEN [h |-> h, out |-> 0]
    ELSE frameEnd(frameLoop(h, CPU_CYCLES_PER_FRAME, CYCLES_PER_SLICE))

\* HyperScanEngine.step() after cpu.step() has returned s
engineStepped(s) ==
    IF ~s.ok THEN s.h ELSE [s.h EXCEPT !.eng.cyclesExecuted = @ + 4]

\* HyperScanEngine.step()
engineStep(h) ==
    IF ~h.eng.romLoaded THEN h ELSE engineStepped(step(pause(h)))

\* HyperScanEngine.reset(): the flash it reads the magic from is the empty
\* one setupHardware has just made
reset(h) ==
    LET p == pause(h)
    IN  IF ~p.eng.romLoaded THEN p
        ELSE LET h1 == setupHardware(p)
                 magic == arrReadU32(h1.mem.flash, BOOT_MAGIC_OFFSET)
             IN  [h1 EXCEPT !.cpu = [CpuReset EXCEPT
                                        !.pc = IF magic = BOOT_MAGIC
                                               THEN BOOT_ADDRESS_FROM_MAGIC
                                               ELSE BOOT_ADDRESS_DEFAULT]]

\* CPU.halt()
halt(c) == [c EXCEPT !.halted = TRUE]

addBreakpoint(h, address) == [h EXCEPT !.eng.breakpoints = @ \cup {address}]

-----------------------------------------------------------------------------
(* Bounds and input sets *)

\* cycles fed to the timer block over a run
MaxCycles == 4
\* characters in the UART's TX buffer, and its pending TX timeouts
MaxTx == 1
\* receive-side UART operations recorded since the last reset
MaxLog == 4
\* MIU accesses on the segment counters at any one time
MaxAccess == 2

IrqLines == {0, 31, 32}
IntcOffsets == {0, 4, 8, 12, 16}
IntcWords == {<<0, 1>>, <<32768, 1>>}

Causes == {0, 5, 63, 64}
CpuWords == {<<0, 256>>, <<65535, 65520>>}
CrIndexes == {3, 32}
Sr0Words == {<<32768, 1>>, <<28672, 0>>, <<2748, 4660>>}

\* register writes: COUNT = 0, CTRL = enable + irq at scale 0 and at scale
\* 1, CTRL = enable + count-down, CMP = 2, STAT = 0x80 and STAT = 0x81 on
\* channel 0, a write past channel 2
TimerWrites ==
    {<<0, Zero32>>, <<4, <<0, 9>>>>, <<4, <<0, 41>>>>, <<4, <<0, 3>>>>, <<8, <<0, 2>>>>,
     <<12, <<0, 128>>>>, <<12, <<0, 129>>>>, <<48, <<0, 9>>>>}
TimerOffsets == {0, 4, 8, 12, 48}
TickCycles == {1, 2}

RxBytes == {65, 66}
UartOffsets == {0, 12, 20}
\* register writes: 'X' and a newline with a high byte to TX, and STATUS
UartWrites == {<<0, <<0, 344>>>>, <<0, <<0, 266>>>>, <<12, Zero32>>}

\* offsets as the MIU hands them to the MMIO region (address & 0xFFFFFF)
IoOffsets ==
    {getOffset(FromInt(INTC_BASE)) + 2, getOffset(FromInt(UART_BASE)) + 13,
     getOffset(FromInt(VDU_BASE)) + 5, 257}
IoBytes == {511}
IoHalves == {48879}
IoWords == {<<4660, 22136>>}

\* an unaligned offset, an aligned one, and one beyond the region that the
\* index masks fold back onto it
ArrOffsets == {1, 4, 1025}
ArrWords == {<<4660, 22136>>, <<33023, 1>>}
ArrBytes == {427}
ArrHalves == {48879}

MiuSegments == {255, SEGMENT_DRAM, 256}
MiuRegions == {"none", "dram"}
\* an address in the null segment 0xFF, one in DRAM and the UART STATUS
\* register in the I/O segment
MiuAddresses ==
    {<<65535, 65532>>, <<SEGMENT_DRAM * 256, 4>>, <<SEGMENT_IO * 256 + 11, 12>>}
MiuWords == {<<4660, 22136>>}
Widths == {8, 16, 32}

\* ROM files picked over a run, animation-frame callbacks requested over a
\* run, and the cycles the engine executes between two hardware set-ups
MaxLoads == 2
MaxFrames == 2
MaxEngCycles == 12

\* ROM images.  The first word of each is an SP-form no-operation in either
\* byte order, the rest is zero but for the boot signature
RomHead == <<0, 34, 51, 0>>
MagicBytes == <<97, 77, 56, 50>>
ImageOf(len, withMagic) ==
    [i \in 1..len |->
        IF i <= 4 THEN RomHead[i]
        ELSE IF withMagic /\ i - 1 >= BOOT_MAGIC_OFFSET /\ i - 1 < BOOT_MAGIC_OFFSET + 4
        THEN MagicBytes[i - BOOT_MAGIC_OFFSET]
        ELSE 0]

\* 1: 84 bytes with the signature at 0x4E; 2: its first 82 bytes, the
\* signature the last four; 3: image 1 with every group of four bytes
\* reversed; 4: an image four bytes longer than the flash
RomImage(rom) ==
    CASE rom = 1 -> ImageOf(84, TRUE)
      [] rom = 2 -> ImageOf(82, TRUE)
      [] rom = 3 -> Swap4(ImageOf(84, TRUE))
      [] rom = 4 -> ImageOf(FLASH_SIZE + 4, FALSE)
Roms == 1..4

\* breakpoint addresses: the second instruction from the default boot address
BpAddrs == {<<SEGMENT_FLASH * 256, 4>>}

\* instructions stepped by the CPU when it is driven directly
MaxSteps == 2

\* where the instruction under test is placed: the first word of DRAM
ProgBase == <<SEGMENT_DRAM * 256, 0>>

\* the SP-form word with the given fields
SpInsn(rD, rA, rB, func6, CU) ==
    <<rD * 64 + rA * 2 + rB \div 16, (rB % 16) * 4096 + func6 * 2 + CU>>

\* func6 of the SP-form ALU instructions: add addc sub subc neg, and or not
\* xor, bitclr bitset bittgl, sll srl sra ror rorc rol rolc, extsb extsh
\* extzb extzh, and the immediate shifts and rotates
SpAluFuncs ==
    {8, 9, 10, 11, 15, 16, 17, 18, 19, 20, 21, 23, 24, 26, 27, 28, 29, 30, 31,
     44, 45, 46, 47, 56, 58, 59, 60, 61, 62, 63}

\* the instructions placed at ProgBase, on r3 <- r1 op r2 (shift amount 2 in
\* the immediate forms): ADD, SUB, EXTSB, RORC, SLL-immediate, RORC-immediate
\* and ROLC-immediate with CU clear; ADD and SUB with CU set, also on
\* r1 op r1; a compare; DIV and DIVU
SpInsns ==
    {SpInsn(3, 1, 2, f, 0) : f \in {8, 10, 29, 44, 56, 61, 63}}
    \cup {SpInsn(3, 1, 2, f, 1) : f \in {8, 10}}
    \cup {SpInsn(3, 1, 1, f, 1) : f \in {8, 10}}
    \cup {SpInsn(3, 1, 2, f, 0) : f \in {12, 34, 35}}

\* the program writes: an instruction at ProgBase, or a DIV or DIVU by r4,
\* which is never written and holds 0, in the word after it
ProgWrites ==
    {<<ProgBase, insn>> : insn \in SpInsns}
    \cup {<<Add32(ProgBase, FromInt(4)), SpInsn(3, 1, 4, f, 0)>> : f \in {34, 35}}

\* setRegister calls: 7, -7 and -2^31 for r1; 2, -2, -1 and 7 for r2
AluRegWrites ==
    {<<1, <<0, 7>>>>, <<1, <<65535, 65529>>>>, <<1, <<32768, 0>>>>,
     <<2, <<0, 2>>>>, <<2, <<65535, 65534>>>>, <<2, <<65535, 65535>>>>, <<2, <<0, 7>>>>}

\* where a program is placed when the CPU boots from flash
IsaBase == BOOT_ADDRESS_DEFAULT

\* the words of scenario S2 as the specification prints them, and ldi r22,
\* 0x21 and addi r22, 0x21 encoded with the fields where execIForm reads them
\* (OP 1, rD 22, func3 6 and 0, the immediate in bits 16..1)
S2_LDI == <<2816, 66>>
S2_ADDI == <<2304, 66>>
LDI_R22 == <<3504, 66>>
ADDI_R22 == <<3456, 66>>

\* a word of the CR form (OP 6) with 0x84 in its low byte, where the
\* disassembler looks for the sub-opcode
CR_RTE == <<12288, 132>>

\* SP-form words: add r3 <- r1 + r1 with CU, mtsr sr0 <- r1, mfsr r3 <- sr0,
\* sdbbp, trap on "always" and on "equal", and func6 0x0E, which execSpForm
\* has no case for
INSN_ADD_CU == SpInsn(3, 1, 1, 8, 1)
INSN_MTSR0 == SpInsn(0, 1, 0, 41, 0)
INSN_MFSR0 == SpInsn(3, 0, 0, 40, 0)
INSN_SDBBP == SpInsn(0, 0, 0, 3, 0)
INSN_TRAP_AL == SpInsn(0, 0, 15, 2, 0)
INSN_TRAP_EQ == SpInsn(0, 0, 4, 2, 0)
INSN_UNDEF == SpInsn(0, 0, 0, 14, 0)

\* the program writes: a first word at IsaBase, a second in the word after it
IsaWrites ==
    {<<IsaBase, insn>> : insn \in {S2_LDI, LDI_R22, INSN_ADD_CU, INSN_MTSR0,
                                    INSN_SDBBP, INSN_TRAP_AL, INSN_TRAP_EQ,
                                    INSN_UNDEF, CR_RTE}}
    \cup {<<Add32(IsaBase, FromInt(4)), insn>> : insn \in {S2_ADDI, ADDI_R22, INSN_MFSR0}}

\* setRegister: r1 = 0x80000000 and 0x50000001
IsaRegWrites == {<<1, <<32768, 0>>>>, <<1, <<20480, 1>>>>}

\* setControlRegister: the exception base cr3 and the return address cr5, in
\* flash
IsaCrWrites == {<<3, <<SEGMENT_FLASH * 256, 256>>>>, <<5, <<SEGMENT_FLASH * 256, 64>>>>}

\* setSystemRegister(0, v): N and T set; Z, C and V set
IsaSr0Words == {<<32768, 1>>, <<28672, 0>>}

-----------------------------------------------------------------------------
(* Observation state.  lastOp is the operation just performed with its     *)
(* arguments, its result, what it called and, for the CPU's operations,    *)
(* the name of the operation before it; obs accumulates what a claim about *)
(* a history needs.                                                        *)

Op(op, n, a, w, ret, calls, threw, prev) ==
    [op |-> op, n |-> n, a |-> a, w |-> w, ret |-> ret, calls |-> calls, threw |-> threw,
     prev |-> prev]

\* what a channel looks like when it has just been configured: whether it
\* is the configuration of the compare property (enabled, counting up, irq
\* enabled, COUNT = 0, CMP >= 1, compare flag not yet set), and whether it
\* starts with an empty cycle accumulator
ArmEval(t) ==
    [armed |-> t.enabled /\ ~t.countDown /\ t.irqEnabled /\ IsZero32(t.count)
               /\ ~IsZero32(t.cmp) /\ t.stat % 2 = 0,
     fresh |-> t.cyclesUntilTick = 0,
     fed |-> 0, irqs |-> 0]

\* the flags and PC an exception entry is about to leave
Snapshot(c) == [pc |-> c.pc, N |-> c.N, Z |-> c.Z, C |-> c.C, V |-> c.V, T |-> c.T]

\* obs after an operation that took the hardware to h, feeding cycles
Observe(h, op, cycles) ==
    [obs EXCEPT
        !.nTrig = @ + CountCalls(h.calls, "trigger"),
        !.nExc = @ + CountCalls(h.calls, "exception"),
        !.nEnabledTrig = @ + Cardinality({i \in 1..Len(h.calls) :
                                 /\ h.calls[i].k = "trigger"
                                 /\ Bit(h.calls[i].w, h.calls[i].n) = 1}),
        !.pre = IF op = "exception" THEN Snapshot(cpu) ELSE @,
        !.nStep = IF op = "step" THEN @ + 1 ELSE @,
        !.nLoad = IF op = "loadROM" THEN @ + 1 ELSE @,
        !.fed = @ + cycles,
        !.arm = [i \in 0..2 |->
                    IF op = "tick"
                    THEN [obs.arm[i] EXCEPT
                             !.fed = @ + cycles,
                             !.irqs = @ + Cardinality({j \in 1..Len(h.calls) :
                                              /\ h.calls[j].k = "onInterrupt"
                                              /\ h.calls[j].n = i})]
                    ELSE IF h.timers[i] # timers[i] THEN ArmEval(h.timers[i])
                    ELSE obs.arm[i]]]

\* the step of an operation: the hardware becomes h, the observation o
Commit(h, o, op, n, a, w, ret, threw) ==
    /\ SetHW(h)
    /\ obs' = o
    /\ lastOp' = Op(op, n, a, w, ret, h.calls, threw, "")

\* the same, keeping the name of the operation before
CommitAfter(h, o, op, n, a, w, ret, threw) ==
    /\ SetHW(h)
    /\ obs' = o
    /\ lastOp' = Op(op, n, a, w, ret, h.calls, threw, lastOp.op)

Init ==
    /\ cpu = CpuReset
    /\ intc = IntcReset
    /\ timers = [i \in 0..2 |-> TimerNew]
    /\ timerStats = [totalTicks |-> 0, totalInterrupts |-> 0]
    /\ uart = UartNew
    /\ vdu = VduNew
    /\ ioRegs = [x \in {} |-> Zero32]
    /\ mem = [dram |-> ArrayMemoryRegion(MemSize), flash |-> ArrayMemoryRegion(MemSize)]
    /\ segs = [s \in Segments |->
                  CASE s = SEGMENT_DRAM -> "dram"
                    [] s = SEGMENT_IO -> "io"
                    [] s = SEGMENT_FLASH -> "flash"
                    [] OTHER -> "none"]
    /\ segStats = [s \in Segments |-> ZeroStats]
    /\ eng = EngineNew
    /\ lastOp = Op("init", 0, Zero32, Zero32, Zero32, <<>>, FALSE, "")
    /\ obs = [nTrig |-> 0, nExc |-> 0, nEnabledTrig |-> 0, nStep |-> 0, nLoad |-> 0,
              pre |-> Snapshot(CpuReset),
              fed |-> 0, arm |-> [i \in 0..2 |-> ArmEval(TimerNew)], rxLog |-> <<>>]

-----------------------------------------------------------------------------
(* Interrupt controller operations, called directly as the peripherals and *)
(* the engine call them                                                    *)

\* every caller of trigger passes the engine's CPU
IntcTrigger ==
    \E n \in IrqLines :
        /\ obs.nTrig < MaxTrig
        /\ LET h == trigger(HW, TRUE, n)
           IN  Commit(h, Observe(h, "trigger", 0), "trigger", n, Zero32, Zero32,
                      Zero32, FALSE)

IntcWrite ==
    \E address \in IntcOffsets, value \in IntcWords :
        LET h == intcWriteU32(HW, address, value)
        IN  Commit(h, Observe(h, "intcWrite", 0), "intcWrite", address, Zero32, value,
                   Zero32, FALSE)

IntcRead ==
    \E address \in IntcOffsets :
        Commit(HW, Observe(HW, "intcRead", 0), "intcRead", address, Zero32, Zero32,
               intcReadU32(intc, address), FALSE)

IntcEnableIRQ ==
    \E n \in IrqLines :
        LET h == [HW EXCEPT !.intc = enableIRQ(@, n)]
        IN  Commit(h, Observe(h, "enableIRQ", 0), "enableIRQ", n, Zero32, Zero32,
                   Zero32, FALSE)

IntcDisableIRQ ==
    \E n \in IrqLines :
        LET h == [HW EXCEPT !.intc = disableIRQ(@, n)]
        IN  Commit(h, Observe(h, "disableIRQ", 0), "disableIRQ", n, Zero32, Zero32,
                   Zero32, FALSE)

IntcClearIRQ ==
    \E n \in IrqLines :
        LET h == [HW EXCEPT !.intc = clearIRQ(@, n)]
        IN  Commit(h, Observe(h, "clearIRQ", 0), "clearIRQ", n, Zero32, Zero32,
                   Zero32, FALSE)

IntcResetOp ==
    LET h == [HW EXCEPT !.intc = IntcReset]
    IN  Commit(h, Observe(h, "intcReset", 0), "intcReset", 0, Zero32, Zero32,
               Zero32, FALSE)

NextINTC ==
    \/ IntcTrigger
    \/ IntcWrite
    \/ IntcRead
    \/ IntcEnableIRQ
    \/ IntcDisableIRQ
    \/ IntcClearIRQ
    \/ IntcResetOp

SpecINTC == Init /\ [][NextINTC]_vars

\* C1: a trigger of a line n in 0..31 leaves STATUS bit n set, and when
\* MASK bit n is 0 at that moment it does not enter the CPU's exception:
\* nothing of the CPU changes (PC, cr0, cr1, cr2, cr5) and the trigger
\* made no exception call.
C1_TriggerSetsStatusAndMaskGates ==
    [][(lastOp'.op = "trigger" /\ lastOp'.n \in 0..31)
         => /\ Bit(intc'.STATUS, lastOp'.n) = 1
            /\ (Bit(intc.MASK, lastOp'.n) = 0
                  => /\ CountCalls(lastOp'.calls, "exception") = 0
                     /\ cpu'.pc = cpu.pc
                     /\ \A i \in {0, 1, 2, 5} : cpu'.cr[i] = cpu.cr[i])]_vars

\* a masked trigger has happened after an earlier delivered one, so the CPU
\* registers it must leave alone are not the reset values
C1_Witness ==
    /\ lastOp.op = "trigger"
    /\ lastOp.n = 31
    /\ Bit(intc.MASK, 31) = 0
    /\ Bit(intc.STATUS, 31) = 1
    /\ intc.blocked >= 1
    /\ intc.processed >= 1

\* C2: a write of v to ACK clears exactly the STATUS bits set in v and
\* leaves the other STATUS bits, MASK and PRIO as they were; a STATUS bit
\* that is clear stays clear until a trigger, and a STATUS read returns the
\* register as it stands; a read of ACK returns 0.
C2_AckClearsExactly ==
    [][/\ (lastOp'.op = "intcWrite" /\ lastOp'.n = 12)
            => /\ \A n \in 0..31 :
                     Bit(intc'.STATUS, n) =
                        IF Bit(lastOp'.w, n) = 1 THEN 0 ELSE Bit(intc.STATUS, n)
               /\ intc'.MASK = intc.MASK
               /\ intc'.PRIO = intc.PRIO
       /\ (lastOp'.op # "trigger")
            => \A n \in 0..31 : Bit(intc.STATUS, n) = 0 => Bit(intc'.STATUS, n) = 0
       /\ (lastOp'.op = "intcRead" /\ lastOp'.n = 8)
            => lastOp'.ret = intc.STATUS /\ intc' = intc
       /\ (lastOp'.op = "intcRead" /\ lastOp'.n = 12)
            => lastOp'.ret = Zero32]_vars

\* an ACK of line 0 alone has been written while lines 0 and 31 were both
\* pending under a non-zero MASK and PRIO: line 31 is still pending
C2_Witness ==
    /\ lastOp.op = "intcWrite"
    /\ lastOp.n = 12
    /\ lastOp.w = <<0, 1>>
    /\ Bit(intc.STATUS, 31) = 1
    /\ Bit(intc.STATUS, 0) = 0
    /\ intc.triggered >= 2
    /\ intc.MASK # Zero32
    /\ intc.PRIO # Zero32

\* C3: a line triggered while its MASK bit is 0 stays pending in STATUS
\* (only an ACK write, clearIRQ or a reset takes it out), a write to MASK
\* enters no exception, and at every moment the number of exception entries
\* equals the number of triggers that met their MASK bit at 1.
C3_NoReplayOnUnmask ==
    /\ [](obs.nExc = obs.nEnabledTrig)
    /\ [][/\ (lastOp'.op = "intcWrite" /\ lastOp'.n = 0)
               => CountCalls(lastOp'.calls, "exception") = 0 /\ cpu' = cpu
          /\ (~(lastOp'.op = "intcWrite" /\ lastOp'.n = 12)
                 /\ lastOp'.op \notin {"clearIRQ", "intcReset"})
               => \A n \in 0..31 : Bit(intc.STATUS, n) = 1 => Bit(intc'.STATUS, n) = 1]_vars

\* line 0 was triggered masked, and MASK has then been written with bit 0
\* set while the line was still pending: no exception has been entered
C3_Witness ==
    /\ lastOp.op = "intcWrite"
    /\ lastOp.n = 0
    /\ Bit(lastOp.w, 0) = 1
    /\ Bit(intc.STATUS, 0) = 1
    /\ obs.nTrig >= 1
    /\ obs.nEnabledTrig = 0
    /\ obs.nExc = 0

-----------------------------------------------------------------------------
(* CPU operations *)

CpuSetPC ==
    \E addr \in CpuWords :
        LET h == [HW EXCEPT !.cpu = setPC(@, addr)]
        IN  CommitAfter(h, Observe(h, "setPC", 0), "setPC", 0, Zero32, addr, Zero32, FALSE)

CpuSetControlRegister ==
    \E idx \in CrIndexes, value \in CpuWords :
        LET h == [HW EXCEPT !.cpu = setControlRegister(@, idx, value)]
        IN  CommitAfter(h, Observe(h, "setControlRegister", 0), "setControlRegister", idx,
                        Zero32, value, Zero32, FALSE)

CpuSetSystemRegister ==
    \E value \in Sr0Words :
        LET h == [HW EXCEPT !.cpu = setSystemRegister(@, 0, value)]
        IN  CommitAfter(h, Observe(h, "setSystemRegister", 0), "setSystemRegister", 0,
                        Zero32, value, Zero32, FALSE)

CpuException ==
    \E cause \in Causes :
        /\ obs.nExc < MaxTrig
        /\ LET h == cpuException(HW, cause)
           IN  CommitAfter(h, Observe(h, "exception", 0), "exception", cause, Zero32, Zero32,
                           Zero32, FALSE)

CpuRte ==
    LET h == [HW EXCEPT !.cpu = rte(@)]
    IN  CommitAfter(h, Observe(h, "rte", 0), "rte", 0, Zero32, Zero32, Zero32, FALSE)

NextCPU ==
    \/ CpuSetPC
    \/ CpuSetControlRegister
    \/ CpuSetSystemRegister
    \/ CpuException
    \/ CpuRte

SpecCPU == Init /\ [][NextCPU]_vars

\* C5: an exception entry with a cause c in 0..63 leaves PC = cr3 + 4c
\* (mod 2^32), cr5 = the PC before the entry and sr0 = cr1 = the five flags
\* before the entry packed (N, Z, C, V in bits 31..28, T in bit 0); an rte
\* that is the next operation restores the PC and the five flags of before
\* the entry.
C5_ExceptionEntryAndReturn ==
    [][/\ (lastOp'.op = "exception" /\ lastOp'.n \in 0..63)
            => /\ cpu'.pc = Add32(cpu.cr[3], <<0, 4 * lastOp'.n>>)
               /\ cpu'.cr[5] = cpu.pc
               /\ cpu'.sr0 = <<32768 * cpu.N + 16384 * cpu.Z + 8192 * cpu.C + 4096 * cpu.V,
                               cpu.T>>
               /\ cpu'.cr[1] = cpu'.sr0
       /\ (lastOp.op = "exception" /\ lastOp.n \in 0..63 /\ lastOp'.op = "rte")
            => /\ cpu'.pc = obs.pre.pc
               /\ <<cpu'.N, cpu'.Z, cpu'.C, cpu'.V, cpu'.T>> =
                     <<obs.pre.N, obs.pre.Z, obs.pre.C, obs.pre.V, obs.pre.T>>]_vars

\* an rte has directly followed an entry with cause 63 taken at a non-zero
\* PC with N and T set and the vector base at 0xFFFFFFF0, where cr3 + 4c
\* wraps around
C5_Witness ==
    /\ lastOp.op = "rte"
    /\ lastOp.prev = "exception"
    /\ cpu.cr[3] = <<65535, 65520>>
    /\ cpu.cr[2] = <<252, 0>>
    /\ obs.pre.pc = <<0, 256>>
    /\ cpu.pc = <<0, 256>>
    /\ cpu.N = 1
    /\ cpu.T = 1

-----------------------------------------------------------------------------
(* Timer block operations *)

\* the engine advances the timer block by the cycles the CPU has run
TimerTick ==
    \E cycles \in TickCycles :
        /\ obs.fed + cycles <= MaxCycles
        /\ LET h == timerControllerTick(HW, cycles)
           IN  Commit(h, Observe(h, "tick", cycles), "tick", cycles, Zero32, Zero32,
                      Zero32, FALSE)

TimerWrite ==
    \E wr \in TimerWrites :
        LET h == timerWriteU32(HW, wr[1], wr[2])
        IN  Commit(h, Observe(h, "timerWrite", 0), "timerWrite", wr[1], Zero32, wr[2],
                   Zero32, FALSE)

TimerRead ==
    \E address \in TimerOffsets :
        Commit(HW, Observe(HW, "timerRead", 0), "timerRead", address, Zero32, Zero32,
               timerReadU32(HW, address), FALSE)

TimerResetOp ==
    LET h == timerControllerReset(HW)
    IN  Commit(h, Observe(h, "timerReset", 0), "timerReset", 0, Zero32, Zero32, Zero32,
               FALSE)

NextTimer ==
    \/ TimerTick
    \/ TimerWrite
    \/ TimerRead
    \/ TimerResetOp

SpecTimer == Init /\ [][NextTimer]_vars

\* the logical ticks a tick(cycles) call owes channel t: the cycles it
\* feeds and those left in the accumulator, in units of the channel's scale
OwedTicks(t, cycles) == (t.cyclesUntilTick + cycles) \div Pow2(t.clockScale)

\* C27: when an advance brings a count-up channel without auto-repeat to its
\* compare value, the channel ends that advance disabled with COUNT = CMP,
\* however many cycles the advance fed; and an advance of a disabled channel
\* leaves COUNT as it was.
C27_OneShotStopsAtCompare ==
    [][lastOp'.op = "tick"
         => \A i \in 0..2 :
              /\ (/\ timers[i].enabled /\ ~timers[i].countDown /\ ~timers[i].repeat
                  /\ timers[i].count[1] = 0 /\ timers[i].cmp[1] = 0
                  /\ timers[i].count[2] < timers[i].cmp[2]
                  /\ OwedTicks(timers[i], lastOp'.n)
                       >= timers[i].cmp[2] - timers[i].count[2])
                   => /\ ~timers'[i].enabled
                      /\ timers'[i].count = timers'[i].cmp
              /\ ~timers[i].enabled => timers'[i].count = timers[i].count]_vars

\* C28: a write of 0x80 to a channel's STAT clears the compare-hit bit (b0)
\* and the overflow bit (b1), which then read 0; a write of any other value
\* to STAT leaves both as they were.
C28_StatWriteClearsBoth ==
    [][(lastOp'.op = "timerWrite" /\ lastOp'.n \in {12, 28, 44})
         => IF lastOp'.w = <<0, 128>>
            THEN readStatus(timers'[lastOp'.n \div 16])[2] % 4 = 0
            ELSE timers'[lastOp'.n \div 16].stat % 4 = timers[lastOp'.n \div 16].stat % 4]_vars

\* what the compare property says of channel i once it has been fed
\* obs.arm[i].fed cycles since it was configured: at exactly CMP * 2^scale
\* cycles STAT.compare is 1 and one IRQ has been raised, below that total
\* STAT.compare is 0 and none has
CompareOnTime(i) ==
    LET t == timers[i]
        a == obs.arm[i]
        exact == t.cmp[1] = 0 /\ a.fed = t.cmp[2] * Pow2(t.clockScale)
        before == t.cmp[1] # 0 \/ a.fed < t.cmp[2] * Pow2(t.clockScale)
    IN  /\ exact => (t.stat % 2 = 1 /\ a.irqs = 1)
        /\ before => (t.stat % 2 = 0 /\ a.irqs = 0)

\* C4 as stated: for a channel configured with enable, count-up, irq-enable,
\* CMP = C >= 1 and COUNT = 0, after exactly C * 2^s cycles STAT.compare is
\* 1 and the timer IRQ has been raised exactly once, and before that total
\* STAT.compare is 0 and no IRQ has been raised.  It fails for a channel
\* that is given a new CTRL while cycles of an earlier scale are still in
\* its accumulator: they count towards the compare.
C4_AsStated ==
    \A i \in 0..2 : obs.arm[i].armed => CompareOnTime(i)

\* C4, amended: the same, for a channel whose cycle accumulator is empty
\* when it is configured (as after a reset, after a COUNT write, or after
\* an advance while the channel was disabled).
C4_CompareAfterExactCycles ==
    \A i \in 0..2 : (obs.arm[i].armed /\ obs.arm[i].fresh) => CompareOnTime(i)

\* channel 0, configured clean with CMP = 2 and scale 1, has been fed
\* exactly 4 cycles in more than one advance: compare flag set, one IRQ
C4_Witness ==
    /\ obs.arm[0].armed
    /\ obs.arm[0].fresh
    /\ timers[0].cmp = <<0, 2>>
    /\ timers[0].clockScale = 1
    /\ obs.arm[0].fed = 4
    /\ lastOp.op = "tick"
    /\ lastOp.n = 1
    /\ timers[0].stat % 2 = 1
    /\ obs.arm[0].irqs = 1
    /\ intc.triggered = 1

-----------------------------------------------------------------------------
(* MMIO region operations, as the MIU calls them on the region mounted at  *)
(* segment 0x08                                                            *)

IoRead8 ==
    \E offset \in IoOffsets :
        LET r == ioReadU8(HW, offset)
        IN  Commit(r.h, Observe(r.h, "ioRead8", 0), "ioRead8", offset, Zero32, Zero32,
                  r.ret, FALSE)

IoRead16 ==
    \E offset \in IoOffsets :
        LET r == ioReadU16(HW, offset)
        IN  Commit(r.h, Observe(r.h, "ioRead16", 0), "ioRead16", offset, Zero32, Zero32,
                  r.ret, FALSE)

IoRead32 ==
    \E offset \in IoOffsets :
        LET r == ioReadU32(HW, offset)
        IN  Commit(r.h, Observe(r.h, "ioRead32", 0), "ioRead32", offset, Zero32, Zero32,
                  r.ret, FALSE)

IoWrite8 ==
    \E offset \in IoOffsets, value \in IoBytes :
        LET h == ioWriteU8(HW, offset, value)
        IN  Commit(h, Observe(h, "ioWrite8", 0), "ioWrite8", offset, Zero32,
                  <<0, value>>, Zero32, FALSE)

IoWrite16 ==
    \E offset \in IoOffsets, value \in IoHalves :
        LET h == ioWriteU16(HW, offset, value)
        IN  Commit(h, Observe(h, "ioWrite16", 0), "ioWrite16", offset, Zero32,
                  <<0, value>>, Zero32, FALSE)

IoWrite32 ==
    \E offset \in IoOffsets, value \in IoWords :
        LET h == ioWriteU32(HW, offset, value)
        IN  Commit(h, Observe(h, "ioWrite32", 0), "ioWrite32", offset, Zero32, value,
                  Zero32, FALSE)

NextIO ==
    \/ IoRead8
    \/ IoRead16
    \/ IoRead32
    \/ IoWrite8
    \/ IoWrite16
    \/ IoWrite32

SpecIO == Init /\ [][NextIO]_vars

\* the write-handler calls of a call log
WriteCalls(log) ==
    LET IsWrite(c) == c.k = "writeFn"
    IN  SelectSeq(log, IsWrite)

\* C6: a byte write write8(addr, v) into a word that has a registered
\* handler calls that word's write handler exactly once, with the word a
\* read of the word returned just before in which only the addressed byte
\* is replaced by v & 0xFF.
C6_ByteWriteMergesIntoWord ==
    [][(lastOp'.op = "ioWrite8" /\ IoWordOffset(lastOp'.n) \in DOMAIN Handlers)
         => LET old == ioReadU32(HW, (lastOp'.n \div 4) * 4).ret
                ws == WriteCalls(lastOp'.calls)
            IN  /\ Len(ws) = 1
                /\ ws[1].n = IoWordOffset(lastOp'.n)
                /\ \A j \in 0..3 :
                      ByteOf(ws[1].w, j) =
                         IF j = lastOp'.n % 4 THEN lastOp'.w[2] % 256 ELSE ByteOf(old, j)]_vars

\* a byte has been written to lane 2 of the interrupt controller's MASK
\* word while MASK held 0x12345678: the handler received 0x12FF5678
C6_Witness ==
    /\ lastOp.op = "ioWrite8"
    /\ lastOp.n = getOffset(FromInt(INTC_BASE)) + 2
    /\ WriteCalls(lastOp.calls) = <<Call("writeFn", IoWordOffset(lastOp.n), <<4863, 22136>>)>>
    /\ intc.MASK = <<4863, 22136>>

-----------------------------------------------------------------------------
(* Backing-array region operations, on the DRAM region *)

ArrRead8 ==
    \E offset \in ArrOffsets :
        Commit(HW, Observe(HW, "arrRead8", 0), "arrRead8", offset, Zero32, Zero32,
               arrReadU8(mem.dram, offset), FALSE)

ArrRead16 ==
    \E offset \in ArrOffsets :
        Commit(HW, Observe(HW, "arrRead16", 0), "arrRead16", offset, Zero32, Zero32,
               arrReadU16(mem.dram, offset), FALSE)

ArrRead32 ==
    \E offset \in ArrOffsets :
        Commit(HW, Observe(HW, "arrRead32", 0), "arrRead32", offset, Zero32, Zero32,
               arrReadU32(mem.dram, offset), FALSE)

ArrWrite8 ==
    \E offset \in ArrOffsets, value \in ArrBytes :
        LET h == [HW EXCEPT !.mem.dram = arrWriteU8(@, offset, value)]
        IN  Commit(h, Observe(h, "arrWrite8", 0), "arrWrite8", offset, Zero32,
                   <<0, value>>, Zero32, FALSE)

ArrWrite16 ==
    \E offset \in ArrOffsets, value \in ArrHalves :
        LET h == [HW EXCEPT !.mem.dram = arrWriteU16(@, offset, value)]
        IN  Commit(h, Observe(h, "arrWrite16", 0), "arrWrite16", offset, Zero32,
                   <<0, value>>, Zero32, FALSE)

ArrWrite32 ==
    \E offset \in ArrOffsets, value \in ArrWords :
        LET h == [HW EXCEPT !.mem.dram = arrWriteU32(@, offset, value)]
        IN  Commit(h, Observe(h, "arrWrite32", 0), "arrWrite32", offset, Zero32, value,
                   Zero32, FALSE)

ArrMakeReadOnly ==
    LET h == [HW EXCEPT !.mem.dram = makeReadOnly(@)]
    IN  Commit(h, Observe(h, "makeReadOnly", 0), "makeReadOnly", 0, Zero32, Zero32,
               Zero32, FALSE)

ArrMakeReadWrite ==
    LET h == [HW EXCEPT !.mem.dram = makeReadWrite(@)]
    IN  Commit(h, Observe(h, "makeReadWrite", 0), "makeReadWrite", 0, Zero32, Zero32,
               Zero32, FALSE)

NextArr ==
    \/ ArrRead8
    \/ ArrRead16
    \/ ArrRead32
    \/ ArrWrite8
    \/ ArrWrite16
    \/ ArrWrite32
    \/ ArrMakeReadOnly
    \/ ArrMakeReadWrite

SpecArr == Init /\ [][NextArr]_vars

\* the state just after write32(addr, w) on the DRAM region, addr in range
\* and word-aligned
WroteWord ==
    /\ lastOp.op = "arrWrite32"
    /\ lastOp.n < mem.dram.size
    /\ lastOp.n % 4 = 0

\* read32(addr) gives w back and read8(addr + i) gives (w >> 8i) & 0xFF
ReadsBack ==
    /\ arrReadU32(mem.dram, lastOp.n) = lastOp.w
    /\ arrReadU8(mem.dram, lastOp.n) = <<0, lastOp.w[2] % 256>>
    /\ arrReadU8(mem.dram, lastOp.n + 1) = <<0, lastOp.w[2] \div 256>>
    /\ arrReadU8(mem.dram, lastOp.n + 2) = <<0, lastOp.w[1] % 256>>
    /\ arrReadU8(mem.dram, lastOp.n + 3) = <<0, lastOp.w[1] \div 256>>

\* C7 as stated: in any backing-array region, after write32(addr, w) at an
\* in-range word-aligned addr, read32(addr) returns w and read8(addr + i)
\* returns (w >> 8i) & 0xFF for i in 0..3.  It fails for a region that
\* makeReadOnly() has put in read-only mode, where the write is dropped.
C7_AsStated == WroteWord => ReadsBack

\* C7, amended: the same, for a backing-array region that is writable.
C7_WordRoundTrip == (WroteWord /\ mem.dram.writable) => ReadsBack

\* 0x80FF0001 has just been written at offset 4 of the writable region,
\* and the word at offset 0 holds another value
C7_Witness ==
    /\ WroteWord
    /\ mem.dram.writable
    /\ lastOp.n = 4
    /\ lastOp.w = <<33023, 1>>
    /\ arrReadU32(mem.dram, 0) = <<4660, 22136>>
    /\ mem.dram.bytes[7] = 128

-----------------------------------------------------------------------------
(* MIU operations *)

\* the accesses the segment counters hold
RECURSIVE SumStats(_, _)
SumStats(st, S) ==
    IF S = {} THEN 0
    ELSE LET x == CHOOSE y \in S : TRUE
         IN  st[x].reads + st[x].writes + st[x].unmappedReads + st[x].unmappedWrites
             + SumStats(st, S \ {x})

\* the unmapped accesses counted for the segment of an address
Unmapped(st, address) ==
    st[getSegment(address)].unmappedReads + st[getSegment(address)].unmappedWrites

MiuRead ==
    \E width \in Widths, address \in MiuAddresses :
        /\ SumStats(segStats, Segments) < MaxAccess
        /\ LET r == miuRead(HW, width, address)
           IN  Commit(r.h, Observe(r.h, "miuRead", 0), "miuRead", width, address, Zero32,
                      r.ret, FALSE)

MiuWrite ==
    \E width \in Widths, address \in MiuAddresses, value \in MiuWords :
        /\ SumStats(segStats, Segments) < MaxAccess
        /\ LET h == miuWrite(HW, width, address, value)
           IN  Commit(h, Observe(h, "miuWrite", 0), "miuWrite", width, address, value,
                      Zero32, FALSE)

MiuSetRegion ==
    \E segment \in MiuSegments, region \in MiuRegions :
        LET r == setRegion(HW, segment, region)
        IN  Commit(r.h, Observe(r.h, "setRegion", 0), "setRegion", segment, Zero32, Zero32,
                   Zero32, r.threw)

MiuUnmapSegment ==
    \E segment \in MiuSegments :
        LET h == unmapSegment(HW, segment)
        IN  Commit(h, Observe(h, "unmapSegment", 0), "unmapSegment", segment, Zero32,
                   Zero32, Zero32, FALSE)

NextMIU ==
    \/ MiuRead
    \/ MiuWrite
    \/ MiuSetRegion
    \/ MiuUnmapSegment

SpecMIU == Init /\ [][NextMIU]_vars

\* C8: an access of any width to an address whose segment has no region
\* mounted returns 0 when it is a read, changes no region and no peripheral
\* when it is a write, adds one to that segment's count of unmapped
\* accesses, and raises no error.
C8_UnmappedAccess ==
    [][(lastOp'.op \in {"miuRead", "miuWrite"} /\ segs[getSegment(lastOp'.a)] = "none")
         => /\ lastOp'.op = "miuRead" => lastOp'.ret = Zero32
            /\ mem' = mem
            /\ ioRegs' = ioRegs
            /\ <<cpu', intc', timers', uart', vdu'>> = <<cpu, intc, timers, uart, vdu>>
            /\ segs' = segs
            /\ Unmapped(segStats', lastOp'.a) = Unmapped(segStats, lastOp'.a) + 1
            /\ \A x \in Segments \ {getSegment(lastOp'.a)} : segStats'[x] = segStats[x]
            /\ ~lastOp'.threw]_vars

\* a 16-bit write to the DRAM address has been dropped after DRAM, holding
\* a written word, was unmapped: the second unmapped access of the segment
C8_Witness ==
    /\ lastOp.op = "miuWrite"
    /\ lastOp.n = 16
    /\ getSegment(lastOp.a) = SEGMENT_DRAM
    /\ segs[SEGMENT_DRAM] = "none"
    /\ Unmapped(segStats, lastOp.a) = 2
    /\ arrReadU32(mem.dram, 4) = <<4660, 22136>>

-----------------------------------------------------------------------------
(* UART operations.  obs.rxLog is the receive-side history since the last  *)
(* reset: bytes enqueued, reads of the data and STATUS registers with the  *)
(* value returned, and getNextRXByte calls.                                *)

Event(op, a, v) == [op |-> op, a |-> a, v |-> v]

UartReceive ==
    \E byte \in RxBytes :
        /\ Len(obs.rxLog) < MaxLog
        /\ LET h == [HW EXCEPT !.uart = receiveData(@, byte)]
           IN  Commit(h, [Observe(h, "receiveData", 0) EXCEPT
                             !.rxLog = Append(@, Event("recv", 0, byte))],
                      "receiveData", byte, Zero32, Zero32, Zero32, FALSE)

UartRead ==
    \E address \in UartOffsets :
        /\ address \in {0, 12} => Len(obs.rxLog) < MaxLog
        /\ LET r == uartReadU32(uart, address)
               h == [HW EXCEPT !.uart = r.u]
           IN  Commit(h, [Observe(h, "uartRead", 0) EXCEPT
                             !.rxLog = IF address \in {0, 12}
                                       THEN Append(@, Event("read", address, r.ret[2]))
                                       ELSE @],
                      "uartRead", address, Zero32, Zero32, r.ret, FALSE)

UartWrite ==
    \E wr \in UartWrites :
        LET h == [HW EXCEPT !.uart = uartWriteU32(@, wr[1], wr[2])]
        IN  /\ h.uart.txTimers <= MaxTx
            /\ Len(h.uart.buffer) <= MaxTx
            /\ Commit(h, Observe(h, "uartWrite", 0), "uartWrite", wr[1], Zero32, wr[2],
                      Zero32, FALSE)

\* the timeout a TX write has set runs
UartTxTimeout ==
    /\ uart.txTimers > 0
    /\ LET h == [HW EXCEPT !.uart = uartTxTimeout(@)]
       IN  Commit(h, Observe(h, "txTimeout", 0), "txTimeout", 0, Zero32, Zero32, Zero32,
                  FALSE)

UartGetNextRXByte ==
    /\ Len(obs.rxLog) < MaxLog
    /\ LET r == getNextRXByte(uart)
           h == [HW EXCEPT !.uart = r.u]
       IN  Commit(h, [Observe(h, "getNextRXByte", 0) EXCEPT
                         !.rxLog = Append(@, Event("getNext", 0, r.ret))],
                  "getNextRXByte", 0, Zero32, Zero32, <<0, r.ret>>, FALSE)

UartResetOp ==
    LET h == [HW EXCEPT !.uart = uartReset(@)]
    IN  Commit(h, [Observe(h, "uartReset", 0) EXCEPT !.rxLog = <<>>],
               "uartReset", 0, Zero32, Zero32, Zero32, FALSE)

NextUART ==
    \/ UartReceive
    \/ UartRead
    \/ UartWrite
    \/ UartTxTimeout
    \/ UartGetNextRXByte
    \/ UartResetOp

SpecUART == Init /\ [][NextUART]_vars

IsRead(e, address) == e.op = "read" /\ e.a = address

\* the RX-ready bit of a STATUS value
RxReady(v) == (v \div STATUS_RX_READY) % 2 = 1

\* C9: from a reset UART with an empty receive queue, once a byte b has
\* been enqueued a read of STATUS (0x0C) has RX-ready set, a read of the
\* data register (0x00) that follows returns b, and a read of STATUS after
\* that has RX-ready clear.
C9_ReceiveThenRead ==
    LET L == obs.rxLog
    IN  (Len(L) >= 2 /\ L[1].op = "recv" /\ IsRead(L[2], 12))
          => /\ RxReady(L[2].v)
             /\ (Len(L) >= 3 /\ IsRead(L[3], 0)) => L[3].v = L[1].v
             /\ (Len(L) >= 4 /\ IsRead(L[3], 0) /\ IsRead(L[4], 12)) => ~RxReady(L[4].v)

\* 0x42 has been enqueued, and STATUS, the data register and STATUS again
\* have been read
C9_Witness ==
    /\ Len(obs.rxLog) = 4
    /\ obs.rxLog[1] = Event("recv", 0, 66)
    /\ IsRead(obs.rxLog[2], 12)
    /\ obs.rxLog[3] = Event("read", 0, 66)
    /\ IsRead(obs.rxLog[4], 12)
    /\ lastOp.op = "uartRead"
    /\ lastOp.n = 12
    /\ ~RxReady(lastOp.ret[2])

\* how many bytes the history enqueues before anything else
LeadingRecv(L) ==
    CHOOSE k \in 0..Len(L) :
        /\ \A i \in 1..k : L[i].op = "recv"
        /\ k = Len(L) \/ L[k + 1].op # "recv"

\* C10: reception is a FIFO.  When b1..bk have been enqueued with no read
\* in between and only reads of the data register follow, the reads return
\* b1, b2, ... in that order, and after a read RX-ready is set exactly when
\* bytes are left.
C10_FifoOrder ==
    LET L == obs.rxLog
        k == LeadingRecv(L)
        reads == Len(L) - k
    IN  (k >= 1 /\ reads <= k /\ \A i \in (k + 1)..Len(L) : IsRead(L[i], 0))
          => /\ \A i \in (k + 1)..Len(L) : L[i].v = L[i - k].v
             /\ reads >= 1 => (RxReady(uart.regs.STATUS) <=> reads < k)


-----------------------------------------------------------------------------
(* The CPU driven directly: registers and flags are set and a program is   *)
(* written to DRAM through the MIU, the PC is pointed at it, and step runs. *)
(* The operands, flags and program are set up before the first step.       *)

AluSetRegister ==
    \E p \in AluRegWrites :
        /\ obs.nStep = 0
        /\ LET h == [HW EXCEPT !.cpu = setRegister(@, p[1], p[2])]
           IN  Commit(h, Observe(h, "setRegister", 0), "setRegister", p[1], Zero32, p[2],
                      Zero32, FALSE)

AluSetFlags ==
    \E value \in Sr0Words :
        /\ obs.nStep = 0
        /\ LET h == [HW EXCEPT !.cpu = setSystemRegister(@, 0, value)]
           IN  Commit(h, Observe(h, "setSystemRegister", 0), "setSystemRegister", 0,
                      Zero32, value, Zero32, FALSE)

AluSetPC ==
    /\ obs.nStep = 0
    /\ LET h == [HW EXCEPT !.cpu = setPC(@, ProgBase)]
       IN  Commit(h, Observe(h, "setPC", 0), "setPC", 0, ProgBase, Zero32, Zero32, FALSE)

AluWriteInsn ==
    \E p \in ProgWrites :
        /\ obs.nStep = 0
        /\ segStats[SEGMENT_DRAM].writes < MaxAccess
        /\ LET h == miuWrite(HW, 32, p[1], p[2])
           IN  Commit(h, Observe(h, "miuWrite", 0), "miuWrite", 32, p[1], p[2], Zero32, FALSE)

\* lastOp.a is the PC the instruction was fetched at, lastOp.w the word
CpuStepped(s, w) ==
    Commit(s.h, Observe(s.h, "step", 0), "step", Func6Of(w), cpu.pc, w, Zero32, ~s.ok)

CpuStep ==
    /\ obs.nStep < MaxSteps
    /\ Fetchable(HW)
    /\ CpuStepped(step(HW), miuRead(HW, 32, cpu.pc).ret)

NextALU ==
    \/ AluSetRegister
    \/ AluSetFlags
    \/ AluSetPC
    \/ AluWriteInsn
    \/ CpuStep

\* the step just taken executed the SP-form instruction func6 = f
Stepped(f) ==
    /\ lastOp'.op = "step"
    /\ ~lastOp'.threw
    /\ OpOf(lastOp'.w) = 0
    /\ Func6Of(lastOp'.w) = f

\* C17: after a flag-updating ADD (CU set) of u = r[rA] and v = r[rB] into
\* r[rD], r[rD] = (u + v) mod 2^32, N is bit 31 of r[rD], and Z is 1 exactly
\* when r[rD] is 0.
C17_AddResultAndNZ ==
    [][(Stepped(8) /\ CuOf(lastOp'.w) = 1)
         => LET u == cpu.r[RaOf(lastOp'.w)]
                v == cpu.r[RbOf(lastOp'.w)]
                x == cpu'.r[RdOf(lastOp'.w)]
            IN  /\ x[2] = (u[2] + v[2]) % 65536
                /\ x[1] = (u[1] + v[1] + (u[2] + v[2]) \div 65536) % 65536
                /\ cpu'.N = x[1] \div 32768
                /\ (cpu'.Z = 1) <=> (x = <<0, 0>>)
                /\ cpu'.Z \in {0, 1}]_vars

\* ADD r3 <- r1 + r1 with CU set has run on r1 = 0x80000000: the sum wrapped
\* to 0 and Z is set
C17_Witness ==
    /\ lastOp.op = "step"
    /\ lastOp.w = SpInsn(3, 1, 1, 8, 1)
    /\ cpu.r[1] = <<32768, 0>>
    /\ cpu.r[3] = <<0, 0>>
    /\ cpu.Z = 1
    /\ cpu.N = 0

\* C18: a flag-updating SUB (CU set) of u from u gives 0 with Z = 1, N = 0,
\* C = 1 and V = 0.
C18_SubSelf ==
    [][(Stepped(10) /\ CuOf(lastOp'.w) = 1
          /\ cpu.r[RaOf(lastOp'.w)] = cpu.r[RbOf(lastOp'.w)])
         => /\ cpu'.r[RdOf(lastOp'.w)] = <<0, 0>>
            /\ cpu'.Z = 1
            /\ cpu'.N = 0
            /\ cpu'.C = 1
            /\ cpu'.V = 0]_vars

\* SUB r3 <- r1 - r2 with CU set has run on r1 = r2 = 7 from the flags
\* N = 1, Z = 0, C = 0: the flags are now those of the claim
C18_Witness ==
    /\ lastOp.op = "step"
    /\ lastOp.w = SpInsn(3, 1, 2, 10, 1)
    /\ cpu.r[1] = <<0, 7>>
    /\ cpu.r[2] = <<0, 7>>
    /\ cpu.sr0 = <<32768, 1>>
    /\ cpu.r[3] = <<0, 0>>
    /\ cpu.Z = 1 /\ cpu.N = 0 /\ cpu.C = 1 /\ cpu.V = 0

\* C19: an SP-form ALU instruction stepped with its CU bit clear leaves the
\* flags N, Z, C, V and T as they were.
C19_FlagsKeptWithoutCU ==
    [][(lastOp'.op = "step" /\ ~lastOp'.threw /\ OpOf(lastOp'.w) = 0
          /\ Func6Of(lastOp'.w) \in SpAluFuncs /\ CuOf(lastOp'.w) = 0)
         => <<cpu'.N, cpu'.Z, cpu'.C, cpu'.V, cpu'.T>>
              = <<cpu.N, cpu.Z, cpu.C, cpu.V, cpu.T>>]_vars

\* the unsigned 64-bit product of two words
Prod64(a, b) ==
    LET p == MulBytes(ExtBytes(a, FALSE), ExtBytes(b, FALSE), 0, 0)
    IN  [lo |-> <<p[3] + 256 * p[4], p[1] + 256 * p[2]>>,
         hi |-> <<p[7] + 256 * p[8], p[5] + 256 * p[6]>>]

\* quo and rem are the floor quotient and the remainder of a by b # 0, all
\* unsigned: quo * b + rem = a as integers and rem < b
IsQuotRem(a, b, quo, rem) ==
    LET m == Prod64(quo, b)
    IN  /\ m.hi = <<0, 0>>
        /\ ~Lt32(a, m.lo)
        /\ Sub32(a, m.lo) = rem
        /\ Lt32(rem, b)

\* the two's complement of a word when flip holds, the word otherwise
NegIf(flip, x) == IF flip THEN Sub32(<<0, 0>>, x) ELSE x

\* C20: with b = r[rB] # 0, DIV leaves in CEL the quotient of a = r[rA] by b
\* truncated toward zero and in CEH the remainder a - b * quotient, both
\* mod 2^32 (the magnitudes divide as unsigned numbers, the quotient is
\* negative when the signs differ, the remainder has the sign of a), and
\* DIVU leaves the unsigned floor quotient and remainder; with b = 0 both
\* leave CEL and CEH as they were, enter no exception and the PC moves on
\* by 4.
C20_DivQuotientRemainder ==
    [][(Stepped(34) \/ Stepped(35))
         => LET a == cpu.r[RaOf(lastOp'.w)]
                b == cpu.r[RbOf(lastOp'.w)]
                sa == a[1] >= 32768
                sb == b[1] >= 32768
            IN  IF b = <<0, 0>>
                THEN /\ cpu'.CEL = cpu.CEL
                     /\ cpu'.CEH = cpu.CEH
                     /\ CountCalls(lastOp'.calls, "exception") = 0
                     /\ cpu'.pc = Add32(cpu.pc, <<0, 4>>)
                ELSE IF Func6Of(lastOp'.w) = 34
                THEN IsQuotRem(NegIf(sa, a), NegIf(sb, b),
                               NegIf(sa # sb, cpu'.CEL), NegIf(sa, cpu'.CEH))
                ELSE IsQuotRem(a, b, cpu'.CEL, cpu'.CEH)]_vars

\* DIV of -7 by 2 has run: CEL = -3 and CEH = -1
C20_Witness ==
    /\ lastOp.op = "step"
    /\ lastOp.w = SpInsn(3, 1, 2, 34, 0)
    /\ cpu.r[1] = <<65535, 65529>>
    /\ cpu.r[2] = <<0, 2>>
    /\ cpu.CEL = <<65535, 65533>>
    /\ cpu.CEH = <<65535, 65535>>

SpecALU == Init /\ [][NextALU]_vars

-----------------------------------------------------------------------------
(* The CPU booting from flash: a program of one or two words is written to *)
(* the start of flash, registers are set up, and step runs from the boot   *)
(* address.                                                                *)

\* an operation of the set-up that took the hardware to h
IsaDone(h, op, n, a, w) == Commit(h, Observe(h, op, 0), op, n, a, w, Zero32, FALSE)

IsaSetRegister ==
    \E p \in IsaRegWrites :
        /\ obs.nStep = 0
        /\ IsaDone([HW EXCEPT !.cpu = setRegister(@, p[1], p[2])], "setRegister",
                   p[1], Zero32, p[2])

IsaSetControlRegister ==
    \E p \in IsaCrWrites :
        /\ obs.nStep = 0
        /\ IsaDone([HW EXCEPT !.cpu = setControlRegister(@, p[1], p[2])],
                   "setControlRegister", p[1], Zero32, p[2])

IsaSetFlags ==
    \E value \in IsaSr0Words :
        /\ obs.nStep = 0
        /\ IsaDone([HW EXCEPT !.cpu = setSystemRegister(@, 0, value)],
                   "setSystemRegister", 0, Zero32, value)

IsaSetPC ==
    /\ obs.nStep = 0
    /\ IsaDone([HW EXCEPT !.cpu = setPC(@, IsaBase)], "setPC", 0, IsaBase, Zero32)

IsaWriteInsn ==
    \E p \in IsaWrites :
        /\ obs.nStep = 0
        /\ segStats[SEGMENT_FLASH].writes < MaxAccess
        /\ IsaDone(miuWrite(HW, 32, p[1], p[2]), "miuWrite", 32, p[1], p[2])

NextISA ==
    \/ IsaSetRegister
    \/ IsaSetControlRegister
    \/ IsaSetFlags
    \/ IsaSetPC
    \/ IsaWriteInsn
    \/ CpuStep

\* C21: at every instruction boundary sr0 is the packed form of the flags:
\* mfsr rD, sr0 leaves in r[rD] the packed form of the flags N, Z, C, V, T
\* the CPU has when it executes, and mtsr sr0, rA sets the five flags to
\* bits 31, 30, 29, 28 and 0 of r[rA].
C21_Sr0MirrorsFlags ==
    [][/\ (Stepped(40) /\ RbOf(lastOp'.w) = 0)
            => cpu'.r[RdOf(lastOp'.w)] = PackedFlags(cpu)
       /\ (Stepped(41) /\ RbOf(lastOp'.w) = 0)
            => <<cpu'.N, cpu'.Z, cpu'.C, cpu'.V, cpu'.T>>
                 = <<Bit(cpu.r[RaOf(lastOp'.w)], 31), Bit(cpu.r[RaOf(lastOp'.w)], 30),
                     Bit(cpu.r[RaOf(lastOp'.w)], 29), Bit(cpu.r[RaOf(lastOp'.w)], 28),
                     Bit(cpu.r[RaOf(lastOp'.w)], 0)>>]_vars

\* C22: every successful step raises the CPU's cycle counter by four, so that
\* it is four times the instruction counter; a step of the nop (the word 0)
\* moves the PC on by 4 and leaves the flags as they were.
C22_StepChargesFourCycles ==
    [][(lastOp'.op = "step" /\ ~lastOp'.threw)
         => /\ cpu'.cycles = cpu.cycles + 4
            /\ cpu'.cycles = 4 * cpu'.instructions
            /\ lastOp'.w = <<0, 0>>
                 => /\ cpu'.pc = Add32(cpu.pc, <<0, 4>>)
                    /\ <<cpu'.N, cpu'.Z, cpu'.C, cpu'.V, cpu'.T>>
                         = <<cpu.N, cpu.Z, cpu.C, cpu.V, cpu.T>>]_vars

\* the step just taken executed word w2 at the word after IsaBase, and the
\* step before it executed w1 at IsaBase
TwoSteps(w1, w2) ==
    /\ lastOp.op = "step" /\ lastOp.a = IsaBase /\ lastOp.w = w1
    /\ lastOp'.op = "step" /\ lastOp'.a = Add32(IsaBase, <<0, 4>>) /\ lastOp'.w = w2

\* C23 as stated: with 0x0B000042 at 0x9E000000 and 0x09000042 at 0x9E000004,
\* after the two steps r22 = 0x42 and PC = 0x9E000008.
C23_AsStated ==
    [][TwoSteps(S2_LDI, S2_ADDI)
         => cpu'.r[22] = <<0, 66>> /\ cpu'.pc = Add32(IsaBase, <<0, 8>>)]_vars

\* C23: with ldi r22, 0x21 (0x0DB00042) at 0x9E000000 and addi r22, 0x21
\* (0x0D800042) at 0x9E000004, after the two steps r22 = 0x42 and
\* PC = 0x9E000008.
C23_LdiThenAddi ==
    [][TwoSteps(LDI_R22, ADDI_R22)
         => cpu'.r[22] = <<0, 66>> /\ cpu'.pc = Add32(IsaBase, <<0, 8>>)]_vars

\* ldi r22 and addi r22 have run from the boot address: r22 is 0x42
C23_Witness ==
    /\ lastOp.op = "step"
    /\ lastOp.w = ADDI_R22
    /\ lastOp.a = Add32(IsaBase, <<0, 4>>)
    /\ cpu.instructions = 2
    /\ cpu.r[22] = <<0, 66>>
    /\ cpu.pc = Add32(IsaBase, <<0, 8>>)

\* the func6 values execSpForm has a case for
SpDecoded == (0..13) \cup (15..24) \cup (26..37) \cup (40..49) \cup {52, 53, 56}
             \cup (58..63)

\* a word no case of step or of execSpForm decodes
Undecoded(w) == OpOf(w) = 6 \/ (OpOf(w) = 0 /\ Func6Of(w) \notin SpDecoded)

\* C26: a step that fetches an instruction whose opcode or sub-function is
\* not decoded enters the exception flow: exception() is called in that step.
C26_InvalidInstructionTraps ==
    [][(lastOp'.op = "step" /\ ~lastOp'.threw /\ Undecoded(lastOp'.w))
         => CountCalls(lastOp'.calls, "exception") >= 1]_vars

\* C29: a step of a CR-form word (OP 6) with sub-opcode 0x84 loads sr0 from
\* cr1, unpacks the five flags from it, and sets the PC to cr5.
C29_CrFormReturnsFromException ==
    [][(lastOp'.op = "step" /\ ~lastOp'.threw /\ lastOp'.w = CR_RTE)
         => /\ cpu'.sr0 = cpu.cr[1]
            /\ <<cpu'.N, cpu'.Z, cpu'.C, cpu'.V, cpu'.T>>
                 = <<Bit(cpu.cr[1], 31), Bit(cpu.cr[1], 30), Bit(cpu.cr[1], 29),
                     Bit(cpu.cr[1], 28), Bit(cpu.cr[1], 0)>>
            /\ cpu'.pc = cpu.cr[5]]_vars

\* the cause of the exception the step just taken entered, 0 when none
EnteredCause(log) ==
    IF CountCalls(log, "exception") = 0 THEN 0
    ELSE log[CHOOSE i \in 1..Len(log) : log[i].k = "exception"].n

\* C30: a step of sdbbp, or of a trap whose condition holds, enters the
\* exception with cause c; after that step PC = (cr3 + 4c) mod 2^32 with no
\* further advance, and cr5 is the address of the instruction.
C30_ExceptionStepLandsOnVector ==
    [][(lastOp'.op = "step" /\ ~lastOp'.threw
          /\ CountCalls(lastOp'.calls, "exception") >= 1)
         => /\ cpu'.pc = Add32(cpu.cr[3], FromInt(4 * EnteredCause(lastOp'.calls)))
            /\ cpu'.cr[5] = lastOp'.a]_vars

SpecISA == Init /\ [][NextISA]_vars

-----------------------------------------------------------------------------
(* VDU rendering: a display is constructed, its registers and the DRAM     *)
(* behind the framebuffer are written, and frames are rendered             *)

\* renders of one run
MaxRenders == 2

VduSizes == {<<1, 1>>, <<DisplayWidth, DisplayHeight>>}
VduModes == {"RGB565", "RGB555", "RGBA8888", "PAL8"}
\* CTRL, FB_ADDR_HIGH (DRAM, an unmapped segment, the MMIO segment) and
\* FB_ADDR_LOW
VduWrites ==
    {<<0, <<0, 0>>>>, <<0, <<0, 1>>>>,
     <<4, <<0, SEGMENT_DRAM * 256>>>>, <<4, <<0, (SEGMENT_FLASH - 1) * 256>>>>,
     <<4, <<0, SEGMENT_IO * 256>>>>,
     <<6, <<0, 0>>>>, <<6, <<0, 2>>>>, <<6, <<0, 6>>>>}
VduPixelOffsets == {0, 2}
\* pure red and pure green in RGB565, and a pixel with every field mixed
VduPixels == {63488, 2016, 48879}
\* render's argument: 0 the MIU, 1 the DRAM region, 2 none
VduRenderArgs == <<"miu", "dram", "null">>

VduDone(h, op, n, a, w, ret) ==
    Commit(h, Observe(h, op, 0), op, n, a, w, IF ret THEN FromInt(1) ELSE Zero32, FALSE)

VduConstruct ==
    \E sz \in VduSizes, mode \in VduModes :
        /\ vdu.stats.framesAttempted = 0
        /\ VduDone([HW EXCEPT !.vdu = VideoDisplayUnit(sz[1], sz[2], <<40960, 0>>, mode)],
                   "VideoDisplayUnit", sz[1] * sz[2], Zero32, Zero32, FALSE)

VduWriteU32 ==
    \E p \in VduWrites :
        /\ vdu.stats.framesAttempted = 0
        /\ VduDone([HW EXCEPT !.vdu = vduWriteU32(@, p[1], p[2])],
                   "vduWriteU32", 0, <<0, p[1]>>, p[2], FALSE)

VduPokePixel ==
    \E offset \in VduPixelOffsets, value \in VduPixels :
        /\ vdu.stats.framesAttempted = 0
        /\ VduDone([HW EXCEPT !.mem.dram = arrWriteU16(@, offset, value)],
                   "arrWriteU16", 0, <<0, offset>>, <<0, value>>, FALSE)

VduRendered(r, n) == VduDone(r.h, "render", n, Zero32, Zero32, r.ret)

VduRender ==
    \E n \in 0..2 :
        /\ vdu.stats.framesAttempted < MaxRenders
        /\ VduRendered(vduRender(HW, VduRenderArgs[n + 1]), n)

VduVBlankEnd ==
    /\ vdu.timeouts > 0
    /\ VduDone(vblankEnd(HW), "vblankEnd", 0, Zero32, Zero32, FALSE)

NextVDU ==
    \/ VduConstruct
    \/ VduWriteU32
    \/ VduPokePixel
    \/ VduRender
    \/ VduVBlankEnd

\* the region the framebuffer address selects
FbRegion == segs[getSegment(vdu.fbAddr)]

\* the step is a render on the MIU by an enabled display whose framebuffer
\* address selects an array region and whose source format is a known one
RenderChecksBounds ==
    /\ lastOp'.op = "render"
    /\ lastOp'.n = 0
    /\ vdu.ctrl[2] % 2 = 1
    /\ FbRegion \in {"dram", "flash"}
    /\ SourceBytes(vdu.colorModeSource) # 0

\* the region holds offset + W * H * bytes-per-source-pixel bytes
FbFits ==
    getOffset(vdu.fbAddr) + vdu.width * vdu.height * SourceBytes(vdu.colorModeSource)
        <= mem[FbRegion].size

\* C24: a render passes the bounds check exactly when the region holds at
\* least offset + W * H * bytes_per_source_pixel(F) bytes (2 for RGB565 and
\* RGB555, 4 for RGBA8888); when it does not the frame is aborted, the
\* bounds-error counter goes up by one and nothing is thrown.
C24_BoundsCheckBySourceFormat ==
    [][RenderChecksBounds =>
          IF FbFits
          THEN vdu'.stats.boundsErrors = vdu.stats.boundsErrors
          ELSE /\ vdu'.stats.boundsErrors = vdu.stats.boundsErrors + 1
               /\ vdu'.stats.framesRendered = vdu.stats.framesRendered
               /\ vdu'.data = vdu.data
               /\ lastOp'.ret = Zero32
               /\ ~lastOp'.threw]_vars

\* the bytes R, G, B, A that scaling with rounding gives an RGB565 pixel
Rgb565Bytes(px) ==
    <<RoundDiv(((px \div 2048) % 32) * 255, 31), RoundDiv(((px \div 32) % 64) * 255, 63),
      RoundDiv((px % 32) * 255, 31), 255>>

\* C25: a render of an RGB565 display leaves, for every source pixel
\* (r5, g6, b5), the bytes round(r5*255/31), round(g6*255/63),
\* round(b5*255/31), 0xFF in the R, G, B, A positions of the output pixel;
\* 0xF800 gives (0xFF, 0, 0, 0xFF) and 0x07E0 gives (0, 0xFF, 0, 0xFF).
C25_Rgb565ToRgbaBytes ==
    [][(lastOp'.op = "render" /\ lastOp'.ret # Zero32 /\ vdu.colorModeSource = "RGB565")
          => \A i \in 0..(vdu.width * vdu.height - 1) :
                <<vdu'.data[4 * i], vdu'.data[4 * i + 1], vdu'.data[4 * i + 2],
                  vdu'.data[4 * i + 3]>>
                    = Rgb565Bytes(ramView16(mem[FbRegion], getOffset(vdu.fbAddr), i))]_vars

\* STATUS bit 0 of a VDU
VBlank(v) == v.status[2] % 2 = 1

\* C33: a successful render sets STATUS bit 0, and the bit stays set until
\* the vblank-clear that this render scheduled runs: a clear scheduled by
\* an earlier render, running while a later render's clear is still
\* pending, leaves the bit set.
C33_VBlankHeldUntilOwnClear ==
    [][/\ (lastOp'.op = "render" /\ lastOp'.ret # Zero32) => VBlank(vdu')
       /\ (lastOp'.op = "vblankEnd" /\ vdu'.timeouts > 0) => VBlank(vdu')]_vars

SpecVDU == Init /\ [][NextVDU]_vars

-----------------------------------------------------------------------------
(* CPU accesses to the peripheral registers: loads and stores of the       *)
(* widths the MIU offers, at the addresses PLATFORM_CONFIG gives the       *)
(* peripherals, with bytes arriving at the UART in between                 *)

\* MMIO accesses of one run
MaxMmio == 2

\* the registers of the three timer channels
TimerRegAddrs == {FromInt(TIMER_BASE + 16 * n + r) : n \in 0..2, r \in {0, 4, 8, 12}}
\* CTRL, STATUS, FB_ADDR_HIGH and FB_ADDR_LOW of the VDU
VduRegAddrs == {FromInt(VDU_BASE + r) : r \in {0, 2, 4, 6}}

\* <<width, address>> of the loads and stores
MmioAccesses ==
    ({32} \X TimerRegAddrs) \cup ({16, 32} \X VduRegAddrs)
        \cup ({8, 16} \X {FromInt(UART_BASE)})
\* an enable value for a timer CTRL (enable, irq-enable) that is also a
\* CTRL with display enable set for the VDU, and a value with bit 0 clear
MmioWords == {<<0, 9>>, <<0, 40962>>}

MmioRead ==
    \E acc \in MmioAccesses :
        /\ segStats[SEGMENT_IO].reads + segStats[SEGMENT_IO].writes < MaxMmio
        /\ LET r == miuRead(HW, acc[1], acc[2])
           IN  Commit(r.h, Observe(r.h, "mmioRead", 0), "mmioRead", acc[1], acc[2],
                      Zero32, r.ret, FALSE)

MmioWrite ==
    \E acc \in MmioAccesses, value \in MmioWords :
        /\ segStats[SEGMENT_IO].reads + segStats[SEGMENT_IO].writes < MaxMmio
        /\ LET h == miuWrite(HW, acc[1], acc[2], value)
           IN  Commit(h, Observe(h, "mmioWrite", 0), "mmioWrite", acc[1], acc[2],
                      value, Zero32, FALSE)

NextMMIO ==
    \/ MmioRead
    \/ MmioWrite
    \/ UartReceive

\* the step is a 32-bit access to a register of a timer channel
TimerAccess(op) ==
    lastOp'.op = op /\ lastOp'.n = 32 /\ lastOp'.a \in TimerRegAddrs

\* 0x10 * n + r of such an address
TimerRegOf(address) == address[2] - FromInt(TIMER_BASE)[2]

\* C31: a 32-bit access through the MIU to 0x080A0000 + 0x10*n + r reaches
\* register r of timer channel n: a store leaves the channels as the timer
\* controller's write of that register leaves them, a load returns what the
\* timer controller's read of that register returns.
C31_TimerRegistersReachable ==
    [][/\ TimerAccess("mmioWrite")
            => timers' = timerWriteU32(HW, TimerRegOf(lastOp'.a), lastOp'.w).timers
       /\ TimerAccess("mmioRead")
            => lastOp'.ret = timerReadU32(HW, TimerRegOf(lastOp'.a))]_vars

\* the software-writable registers of the VDU: CTRL, FB_ADDR_HIGH, FB_ADDR_LOW
VduWritableAddrs == {FromInt(VDU_BASE + r) : r \in {0, 4, 6}}

\* the low 16 bits of the VDU register at an address
VduRegister(v, address) ==
    CASE address = FromInt(VDU_BASE) -> v.ctrl[2]
      [] address = FromInt(VDU_BASE + 4) -> v.fbAddrHigh
      [] address = FromInt(VDU_BASE + 6) -> v.fbAddrLow

\* C32: after a CPU store through the MIU to CTRL, FB_ADDR_HIGH or
\* FB_ADDR_LOW of the VDU the register holds the stored value and a load
\* from the same address returns it; a CTRL stored with bit 0 clear makes
\* the next render return without rendering.
C32_VduRegisterWriteReadBack ==
    (lastOp.op = "mmioWrite" /\ lastOp.a \in VduWritableAddrs)
        => /\ VduRegister(vdu, lastOp.a) = lastOp.w[2]
           /\ miuRead(HW, lastOp.n, lastOp.a).ret[2] = lastOp.w[2]
           /\ (lastOp.a = FromInt(VDU_BASE) /\ lastOp.w[2] % 2 = 0)
                => /\ ~vduRender(HW, "miu").ret
                   /\ vduRender(HW, "miu").h.vdu.stats.framesRendered
                        = vdu.stats.framesRendered

\* the step is a byte or halfword store to the UART data register
NarrowTxStore ==
    lastOp'.op = "mmioWrite" /\ lastOp'.n \in {8, 16} /\ lastOp'.a = FromInt(UART_BASE)

\* C37: a byte or halfword CPU store to the UART data register transmits
\* the stored byte and leaves the receive side alone: RX-ready, the RX
\* register and the receive queue are after the store what they were
\* before it.
C37_NarrowTxStoreKeepsReceiveSide ==
    [][NarrowTxStore
          => /\ uart'.buffer = processTX(uart, lastOp'.w[2] % 256).buffer
             /\ uart'.rxQueue = uart.rxQueue
             /\ uart'.regs.RX_BUF = uart.regs.RX_BUF
             /\ RxReady(uart'.regs.STATUS) = RxReady(uart.regs.STATUS)]_vars

SpecMMIO == Init /\ [][NextMMIO]_vars

-----------------------------------------------------------------------------
(* Interrupts reaching a program: the program sets the global interrupt    *)
(* enable and the MASK, the peripherals trigger lines, the program returns *)
(* from its handler                                                        *)

\* mtcr of a word with bit 0 set to cr0
IrqSetGlobalEnable ==
    LET h == [HW EXCEPT !.cpu = setControlRegister(@, 0, FromInt(1))]
    IN  CommitAfter(h, Observe(h, "setControlRegister", 0), "setControlRegister", 0,
                    Zero32, FromInt(1), Zero32, FALSE)

NextIRQ ==
    \/ IrqSetGlobalEnable
    \/ CpuSetPC
    \/ CpuRte
    \/ IntcWrite
    \/ IntcTrigger

\* C36: a trigger enters the CPU's exception only while cr0 bit 0 is set:
\* with the bit clear, as it is between an exception entry and the return,
\* a trigger leaves the CPU as it was, cr5 and cr1 included.
C36_TriggerRespectsGlobalEnable ==
    [][(lastOp'.op = "trigger" /\ Bit(cpu.cr[0], 0) = 0)
          => (CountCalls(lastOp'.calls, "exception") = 0 /\ cpu' = cpu)]_vars

SpecIRQ == Init /\ [][NextIRQ]_vars

------------------------------------------------------------------------------
(* The engine driven by its user interface, by the file reader and by the  *)
(* animation-frame callbacks                                               *)

\* the step of an engine operation that took the hardware to h
EngDone(h, op, n, a, ret, threw) ==
    Commit(h, Observe(h, op, 0), op, n, a, Zero32, ret, threw)

EngLoadROM ==
    \E rom \in Roms :
        /\ obs.nLoad < MaxLoads
        /\ eng.loading = 0
        /\ EngDone(loadROMBegin(HW, rom), "loadROM", rom, Zero32, Zero32, FALSE)

EngLoaded(h) ==
    EngDone(h, "loadDone", eng.loading, Zero32, Zero32, h.eng.state = "ERROR")

\* file.arrayBuffer() resolves: the rest of loadROM runs
EngLoadResolve ==
    /\ eng.loading # 0
    /\ EngLoaded(loadROMData([HW EXCEPT !.eng.loading = 0], RomImage(eng.loading)))

\* file.arrayBuffer() rejects: the catch block of loadROM runs
EngLoadReject ==
    /\ eng.loading # 0
    /\ EngDone(handleFatalError([HW EXCEPT !.eng.loading = 0]), "loadReject",
               eng.loading, Zero32, Zero32, TRUE)

EngStart ==
    /\ eng.nextId <= MaxFrames
    /\ EngDone(start(HW), "start", 0, Zero32, Zero32, FALSE)

EngPause ==
    EngDone(pause(HW), "pause", 0, Zero32, Zero32, FALSE)

EngStep ==
    /\ eng.cyclesExecuted < MaxEngCycles
    /\ EngDone(engineStep(HW), "engineStep", 0, cpu.pc, Zero32, FALSE)

EngReset ==
    EngDone(reset(HW), "reset", 0, Zero32, Zero32, FALSE)

\* lastOp.ret is how the callback ended, lastOp.threw whether a step failed
EngFramed(f, id) ==
    EngDone(f.h, "frame", id, cpu.pc, <<0, f.out>>, f.out = 3)

\* the browser runs a requested animation-frame callback
EngFrame ==
    \E id \in eng.pending :
        /\ eng.state = "RUNNING"
             => (eng.nextId <= MaxFrames /\ eng.cyclesExecuted < MaxEngCycles)
        /\ EngFramed(runLoop([HW EXCEPT !.eng.pending = @ \ {id}]), id)

EngHalt ==
    /\ eng.built
    /\ ~cpu.halted
    /\ EngDone([HW EXCEPT !.cpu = halt(@)], "halt", 0, Zero32, Zero32, FALSE)

EngAddBreakpoint ==
    \E address \in BpAddrs :
        /\ address \notin eng.breakpoints
        /\ EngDone(addBreakpoint(HW, address), "addBreakpoint", 0, address, Zero32,
                   FALSE)

NextEngine ==
    \/ EngLoadROM
    \/ EngLoadResolve
    \/ EngLoadReject
    \/ EngStart
    \/ EngPause
    \/ EngStep
    \/ EngReset
    \/ EngFrame
    \/ EngHalt
    \/ EngAddBreakpoint

SpecEngine == Init /\ [][NextEngine]_vars

\* C11: the engine becomes RUNNING only by start() called in PAUSED, and
\* start() called in STOPPED, LOADING or ERROR leaves the state as it was
\* and requests no frame.
C11_RunningOnlyFromPaused ==
    [][/\ (eng'.state = "RUNNING" /\ eng.state # "RUNNING")
            => (lastOp'.op = "start" /\ eng.state = "PAUSED")
       /\ (lastOp'.op = "start" /\ eng.state \in {"STOPPED", "LOADING", "ERROR"})
            => (eng'.state = eng.state /\ eng'.pending = eng.pending)]_vars

\* C12: when reset() completes, from whatever state it was called in, the
\* state is PAUSED, no frame callback is left requested and the hardware is
\* the one setupHardware builds.
C12_ResetEndsPaused ==
    [][lastOp'.op = "reset"
         => /\ eng'.state = "PAUSED"
            /\ eng'.pending = {}
            /\ eng'.built
            /\ mem'.flash = ArrayMemoryRegion(FLASH_SIZE)
            /\ intc' = IntcReset]_vars

\* C13: a ROM load that fails leaves the engine in ERROR, hw.romLoaded as it
\* was and, when there was a flash before, the flash contents as they were.
C13_FailedLoadCommitsNothing ==
    [][(lastOp'.op \in {"loadDone", "loadReject"} /\ lastOp'.threw)
         => /\ eng'.state = "ERROR"
            /\ eng'.romLoaded = eng.romLoaded
            /\ eng.built => mem'.flash = mem.flash]_vars

\* the positions in a call log of the entries of kind k
CallsAt(log, k) == {i \in 1..Len(log) : log[i].k = k}

\* C14: a frame that runs to completion signals IRQ 4 through the interrupt
\* controller exactly once, after its last CPU step and before its one VDU
\* render; a frame ended by a breakpoint or by a failed step signals no
\* vertical blank and renders nothing.
C14_VBlankOncePerCompleteFrame ==
    [][lastOp'.op = "frame"
         => LET log == lastOp'.calls
                vb == {i \in CallsAt(log, "trigger") : log[i].n = IRQ_VBLANK}
                rd == CallsAt(log, "render")
            IN  IF lastOp'.ret = <<0, 1>>
                THEN /\ Cardinality(vb) = 1
                     /\ Cardinality(rd) = 1
                     /\ CallsAt(log, "step") # {}
                     /\ \A v \in vb :
                            /\ \A s \in CallsAt(log, "step") : s < v
                            /\ \A r \in rd : v < r
                     /\ Bit(intc'.STATUS, IRQ_VBLANK) = 1
                ELSE vb = {} /\ rd = {}]_vars

\* a frame of three steps has run to its end with its one vertical blank
\* between the last step and the render
C14_Witness ==
    /\ lastOp.op = "frame"
    /\ lastOp.ret = <<0, 1>>
    /\ Cardinality(CallsAt(lastOp.calls, "step")) = 3
    /\ lastOp.calls[4].k = "trigger" /\ lastOp.calls[4].n = IRQ_VBLANK
    /\ lastOp.calls[5].k = "render"
    /\ Bit(intc.STATUS, IRQ_VBLANK) = 1
    /\ eng.frameCount = 1

\* C15: loading the image whose groups of four bytes are those of image 1
\* reversed leaves in the flash the bytes that loading image 1 leaves.
C15_SwappedImageLoadsTheSame ==
    [][(lastOp'.op = "loadDone" /\ ~lastOp'.threw /\ lastOp'.n = 3)
         => \A i \in 0..(Len(RomImage(1)) - 1) :
                mem'.flash.bytes[i] = RomImage(1)[i + 1]]_vars

\* C16: after a load that succeeds the engine is PAUSED and the PC is
\* 0x9E000100 when the flash bytes 0x4E..0x51, read big-endian, are the
\* signature 0x614D3832, and 0x9E000000 when they are not.
C16_BootAddressFollowsMagic ==
    [][(lastOp'.op = "loadDone" /\ ~lastOp'.threw)
         => LET b == mem'.flash.bytes
                magic == <<256 * b[BOOT_MAGIC_OFFSET] + b[BOOT_MAGIC_OFFSET + 1],
                           256 * b[BOOT_MAGIC_OFFSET + 2] + b[BOOT_MAGIC_OFFSET + 3]>>
            IN  /\ eng'.state = "PAUSED"
                /\ cpu'.pc = IF magic = BOOT_MAGIC THEN BOOT_ADDRESS_FROM_MAGIC
                              ELSE BOOT_ADDRESS_DEFAULT]_vars

\* the steps of a call log
StepsIn(log) == Cardinality(CallsAt(log, "step"))

\* C34: a frame callback of a running engine that comes to a PC with an
\* enabled breakpoint pauses there before the instruction at that PC runs:
\* the engine is PAUSED with the PC on the breakpoint, only the
\* instructions before it have been executed (none, and the CPU is as it
\* was, when the frame began on the breakpoint), the frame counter is as it
\* was, no vertical blank is raised, nothing is rendered and no frame is
\* requested.
C34_BreakpointPausesBeforeInstruction ==
    [][/\ (lastOp'.op = "frame" /\ eng.state = "RUNNING" /\ cpu.pc \in eng.breakpoints)
            => (lastOp'.ret = <<0, 2>> /\ cpu' = cpu)
       /\ (lastOp'.op = "frame" /\ lastOp'.ret = <<0, 2>>)
            => /\ eng'.state = "PAUSED"
               /\ cpu'.pc \in eng.breakpoints
               /\ cpu'.instructions = cpu.instructions + StepsIn(lastOp'.calls)
               /\ eng'.cyclesExecuted = eng.cyclesExecuted + 4 * StepsIn(lastOp'.calls)
               /\ eng'.frameCount = eng.frameCount
               /\ CallsAt(lastOp'.calls, "trigger") = {}
               /\ CallsAt(lastOp'.calls, "render") = {}
               /\ intc' = intc
               /\ vdu' = vdu
               /\ eng'.nextId = eng.nextId
               /\ eng'.frameId = 0
               /\ eng'.pending \subseteq eng.pending]_vars

\* a frame has executed one instruction, come to the breakpoint and paused
\* there
C34_Witness ==
    /\ lastOp.op = "frame"
    /\ lastOp.ret = <<0, 2>>
    /\ StepsIn(lastOp.calls) = 1
    /\ eng.state = "PAUSED"
    /\ cpu.pc \in eng.breakpoints
    /\ eng.frameCount = 0
    /\ eng.pending = {}

\* C35: while a load is pending (from loadROM's LOADING until the file
\* read settles) the state never becomes RUNNING and no CPU instruction is
\* executed, whatever start(), step() or frame callbacks come in between;
\* the load ends in PAUSED or ERROR, and a frame callback that finds the
\* engine in one of these states executes nothing.
C35_NothingRunsWhileLoading ==
    [][/\ (eng.loading # 0 /\ eng'.loading # 0)
            => (eng'.state # "RUNNING" /\ StepsIn(lastOp'.calls) = 0)
       /\ lastOp'.op \in {"loadDone", "loadReject"}
            => eng'.state \in {"PAUSED", "ERROR"}
       /\ (lastOp'.op = "frame" /\ eng.state \in {"PAUSED", "ERROR"})
            => (StepsIn(lastOp'.calls) = 0 /\ eng'.state = eng.state)]_vars

\* C38: reset() on an engine that has just loaded a ROM leaves the flash
\* holding the image the load put there, byte for byte, and the PC at the
\* entry address the load chose for it.
C38_ResetKeepsRomAndEntry ==
    [][(lastOp.op = "loadDone" /\ ~lastOp.threw /\ lastOp'.op = "reset")
          => (mem'.flash.bytes = mem.flash.bytes /\ cpu'.pc = cpu.pc)]_vars

\* start() has just set the engine running with the PC on a breakpoint
ResumedOnBreakpoint ==
    /\ lastOp.op = "start"
    /\ eng.state = "RUNNING"
    /\ eng.frameId \in eng.pending
    /\ cpu.pc \in eng.breakpoints

\* C39: start() invoked with the engine paused on the breakpoint at A
\* makes progress although the breakpoint stays set: the frame callback it
\* requested executes the instruction at A and moves the PC, or at least
\* leaves the engine running with a frame requested that can still do so.
\* A frame that ends with the PC at A, nothing executed and nothing
\* requested has made no progress, and nothing is left that could.
C39_ResumePassesBreakpoint ==
    [][(ResumedOnBreakpoint /\ lastOp'.op = "frame")
          => \/ StepsIn(lastOp'.calls) > 0 /\ cpu'.pc # cpu.pc
             \/ eng'.state = "RUNNING" /\ eng'.pending # {}]_vars

\* C40: in a frame that runs to completion the cycles handed to the timer
\* controller's tick equal the cycles the CPU retired in the frame, which
\* are the cycles of a frame: none is lost at a slice or frame boundary.
C40_TimerSeesEveryFrameCycle ==
    [][(lastOp'.op = "frame" /\ lastOp'.ret = <<0, 1>>)
          => /\ eng'.cyclesExecuted - eng.cyclesExecuted = CPU_CYCLES_PER_FRAME
             /\ timerStats'.totalTicks - timerStats.totalTicks
                  = eng'.cyclesExecuted - eng.cyclesExecuted]_vars

=============================================================================
